---- MODULE Spec2Model ----
(***************************************************************************)
(* A model of poly-maker's realtime feed supervisor                        *)
(* (poly_data/websocket_handlers.py), of its transaction reliability       *)
(* layer (poly_data/utils.py, data_updater/trading_utils.py) and of its    *)
(* reward-scoring engine (data_updater/liquidity_score.py).                *)
(*                                                                         *)
(* Every coroutine is modelled between its await points: asyncio is        *)
(* cooperative, so a step runs from one await to the next, and a           *)
(* cancellation is delivered only at an await.                             *)
(***************************************************************************)
EXTENDS Integers, Sequences, FiniteSets, TLC

VARIABLES loop, tx, eng, run

vars == <<loop, tx, eng, run>>

(***************************************************************************)
(* Bounds of the model.                                                    *)
(***************************************************************************)
\* connection attempts one loop makes before the model stops following it
MaxConnects == 3
\* frames the server delivers to one loop (over all its connections)
MaxFrames == 3
\* the largest max_retries a call of send_signed_transaction_with_receipt is given
MaxRetries == 3
\* the width in bits of the model's unsigned chain integers (uint256 on chain)
UintBits == 4

(***************************************************************************)
(* Program constants.                                                      *)
(***************************************************************************)
\* await asyncio.sleep(5)
BackoffSeconds == 5
\* approveContracts: send_signed_transaction_with_receipt(..., timeout=600)
ReceiptTimeout == 600

(***************************************************************************)
(*                       THE REALTIME FEED SUPERVISOR                      *)
(***************************************************************************)
MarketLoops == {"market1", "market2"}

UserLoop == "user"

Loops == MarketLoops \cup {UserLoop}

\* the chunk argument of connect_market_websocket: the token ids of one loop
Chunk(l) == IF l = "market1" THEN <<"t1", "t2">> ELSE <<"t3", "t4">>

\* global_state.client.client.creds
Creds == [apiKey |-> "key", secret |-> "secret", passphrase |-> "pass"]

\* message = {"assets_ids": chunk}
MarketMessage(l) == [assets_ids |-> Chunk(l)]

\* message = {"type": "user", "auth": {...}}
UserMessage == [type |-> "user", auth |-> Creds]

\* (a variant that subscribes to the full chunk on the first connection only)
SubscriptionMessageFirstOnly(l, n) ==
    IF l \in MarketLoops
    THEN [assets_ids |-> IF n = 1 THEN Chunk(l) ELSE <<>>]
    ELSE UserMessage

\* the control message a loop sends on connection number n
\* (the code builds it afresh from chunk / creds on every connection)
SubscriptionMessage(l, n) == IF l \in MarketLoops THEN MarketMessage(l) ELSE UserMessage

(***************************************************************************)
(* Exceptions.  "Exception" stands for any Exception subclass the second   *)
(* except clause does not name (a handshake error, an AttributeError on    *)
(* the credentials, ...).                                                  *)
(***************************************************************************)
ConnectionErrors ==
    {"ClientConnectorError", "ClientProxyConnectionError", "TimeoutError", "OSError"}

RaisedErrors == {"ClientConnectorError", "TimeoutError", "Exception"}

\* (a variant without the last clause, except Exception)
ExceptClauseNoCatchAll(exc) ==
    IF exc = "CancelledError" THEN "reraise"
    ELSE IF exc \in ConnectionErrors THEN "connection error"
    ELSE "reraise"

\* which except clause of the outer try takes an exception
ExceptClause(exc) ==
    IF exc = "CancelledError" THEN "reraise"
    ELSE IF exc \in ConnectionErrors THEN "connection error"
    ELSE "handshake failed"

(***************************************************************************)
(* Frames.  The data of a text frame is a sequence of tokens; json.loads   *)
(* turns it into a list, a dict (one event), a scalar, or fails.           *)
(***************************************************************************)
Events == {"e1", "e2"}

Scalars == {"7"}

TextData ==
    { <<"[", "e1", "e2", "]">>,   \* an array of two events
      <<"e2">>,                   \* one event object
      <<"7">>,                    \* a JSON number
      <<"[", "e1">> }             \* not JSON

CloseTypes == {"CLOSE", "CLOSING", "CLOSED"}

TextFrames == {[type |-> "TEXT", data |-> d] : d \in TextData}

EndFrames == {[type |-> t, data |-> <<>>] : t \in CloseTypes \cup {"ERROR"}}

OtherFrames == {[type |-> "BINARY", data |-> <<>>]}

Frames == TextFrames \cup OtherFrames \cup EndFrames

\* json.loads(msg.data)
JsonLoads(data) ==
    IF /\ Len(data) >= 2
       /\ data[1] = "["
       /\ data[Len(data)] = "]"
       /\ \A i \in 2..(Len(data) - 1) : data[i] \in Events
    THEN [ok |-> TRUE, kind |-> "list", val |-> SubSeq(data, 2, Len(data) - 1)]
    ELSE IF Len(data) = 1 /\ data[1] \in Events
    THEN [ok |-> TRUE, kind |-> "dict", val |-> data[1]]
    ELSE IF Len(data) = 1 /\ data[1] \in Scalars
    THEN [ok |-> TRUE, kind |-> "scalar", val |-> <<>>]
    ELSE [ok |-> FALSE, kind |-> "none", val |-> <<>>]

\* events = payload (a list) / events = [payload] (a dict)
Normalise(payload) == IF payload.kind = "list" THEN payload.val ELSE <<payload.val>>

(***************************************************************************)
(* The state of one loop:                                                  *)
(*   pc        idle | connecting | sending | receiving | backoff | done    *)
(*   conn      connection attempts made                                    *)
(*   ws        the connection the variable ws is bound to (0: none)        *)
(*   unclosed  sockets this loop has opened that nothing has closed        *)
(*   subs      control messages sent on the current connection             *)
(*   prevSubs  control messages sent on the connection before it           *)
(*   received  frames received on the current connection, in order         *)
(*   forwarded lists handed to the callback on the current connection      *)
(*   lastFrame the frame the last receive returned, until the backoff ends *)
(*   lastCb    how the callback ended on that frame (none|ok|raise)        *)
(*   lastLog   the last line the loop printed                              *)
(*   lastEnd   why the last try block ended                                *)
(*   pending   the exception the finally clause will re-raise              *)
(*   raised    the exception propagated to the caller                      *)
(*   cancelled a cancellation was delivered to the task                    *)
(*   slept     backoff sleeps completed since the last connection attempt  *)
(*   lastDelay the length of the last completed sleep                      *)
(*   frames    frames the server will still deliver (the environment)      *)
(*   conns     connection attempts the model follows (the environment)     *)
(***************************************************************************)
LoopInit(started, nframes, nconns) ==
    [pc |-> IF started THEN "connecting" ELSE "idle",
     conn |-> 0, conns |-> nconns, ws |-> 0, unclosed |-> 0, subs |-> <<>>, prevSubs |-> <<>>,
     received |-> <<>>, forwarded |-> <<>>, lastFrame |-> <<>>, lastCb |-> "none",
     lastLog |-> "none", lastEnd |-> "none", pending |-> "none",
     raised |-> "none", cancelled |-> FALSE, slept |-> 0, lastDelay |-> 0,
     frames |-> nframes]

\* the except clauses and the entry of the finally clause: the try block of
\* loop state s ended with exception exc
OnException(s, exc) ==
    IF ExceptClause(exc) = "reraise"
    THEN [s EXCEPT !.pc = "backoff", !.pending = exc, !.lastEnd = "cancelled",
                   !.lastLog = "task cancelled",
                   !.received = <<>>, !.forwarded = <<>>]
    ELSE [s EXCEPT !.pc = "backoff", !.pending = "none",
                   !.lastEnd = ExceptClause(exc), !.lastLog = ExceptClause(exc),
                   !.received = <<>>, !.forwarded = <<>>]

\* break out of the receive loop: the try block ends normally.  The frame
\* that ends it (CLOSE, CLOSING, CLOSED, ERROR) is one ws.receive() returns
\* with the socket closed; the loop itself never calls ws.close()
EndStreaming(s, why) ==
    [s EXCEPT !.pc = "backoff", !.pending = "none", !.lastEnd = why, !.lastLog = why,
              !.received = <<>>, !.forwarded = <<>>, !.unclosed = @ - 1]

\* (a variant that puts the newest list first)
ForwardNewestFirst(s, events, cb) ==
    [s EXCEPT !.forwarded = <<events>> \o @,
              !.lastCb = cb,
              !.lastLog = IF cb = "raise" THEN "failed to process" ELSE @]

\* process_data(events) / process_user_data(rows), which ends as cb says
Forward(s, events, cb) ==
    [s EXCEPT !.forwarded = Append(@, events),
              !.lastCb = cb,
              !.lastLog = IF cb = "raise" THEN "failed to process" ELSE @]

\* (a variant without the isinstance checks: whatever json.loads returns
\* that is not a list is wrapped and handed on)
OnFrameWrapsAnyValue(s, frame, cb) ==
    IF frame.type = "TEXT"
    THEN LET payload == JsonLoads(frame.data) IN
         IF ~payload.ok
         THEN [s EXCEPT !.lastLog = "failed to decode", !.lastCb = "none"]
         ELSE Forward(s, Normalise(payload), cb)
    ELSE IF frame.type \in CloseTypes
    THEN EndStreaming(s, "closed by server")
    ELSE IF frame.type = "ERROR"
    THEN EndStreaming(s, "error message")
    ELSE [s EXCEPT !.lastCb = "none"]

\* (a variant without the inner try: a decode or callback failure reaches the
\* outer except clauses)
OnFrameNoInnerTry(s, frame, cb) ==
    IF frame.type = "TEXT"
    THEN LET payload == JsonLoads(frame.data) IN
         IF ~payload.ok
         THEN OnException([s EXCEPT !.lastCb = "none"], "Exception")
         ELSE IF payload.kind \in {"list", "dict"}
         THEN IF cb = "raise"
              THEN OnException(Forward(s, Normalise(payload), cb), "Exception")
              ELSE Forward(s, Normalise(payload), cb)
         ELSE [s EXCEPT !.lastLog = "ignoring non-event", !.lastCb = "none"]
    ELSE IF frame.type \in CloseTypes
    THEN EndStreaming(s, "closed by server")
    ELSE IF frame.type = "ERROR"
    THEN EndStreaming(s, "error message")
    ELSE [s EXCEPT !.lastCb = "none"]

\* one pass of the receive loop on the frame just received
OnFrame(s, frame, cb) ==
    IF frame.type = "TEXT"
    THEN LET payload == JsonLoads(frame.data) IN
         IF ~payload.ok
         THEN [s EXCEPT !.lastLog = "failed to decode", !.lastCb = "none"]
         ELSE IF payload.kind \in {"list", "dict"}
         THEN Forward(s, Normalise(payload), cb)
         ELSE [s EXCEPT !.lastLog = "ignoring non-event", !.lastCb = "none"]
    ELSE IF frame.type \in CloseTypes
    THEN EndStreaming(s, "closed by server")
    ELSE IF frame.type = "ERROR"
    THEN EndStreaming(s, "error message")
    ELSE [s EXCEPT !.lastCb = "none"]

\* (a variant whose sleep grows with the connection attempts made)
BackoffDelayGrowing(s) == BackoffSeconds * s.conn

\* the length of the sleep in the finally clause
BackoffDelay(s) == BackoffSeconds

\* the finally clause's sleep has run to its end; when the exception goes
\* on to the caller, "async with aiohttp.ClientSession" is left and the
\* session closes what it still holds
AfterSleep(s) ==
    IF s.pending = "none"
    THEN [s EXCEPT !.pc = "connecting", !.slept = @ + 1, !.lastDelay = BackoffDelay(s),
                   !.lastFrame = <<>>, !.lastCb = "none"]
    ELSE [s EXCEPT !.pc = "done", !.raised = s.pending, !.pending = "none",
                   !.slept = @ + 1, !.lastDelay = BackoffDelay(s),
                   !.lastFrame = <<>>, !.lastCb = "none", !.unclosed = 0]

\* task.cancel(): CancelledError is thrown into the coroutine at its await
OnCancel(s) ==
    IF s.pc = "backoff"
    THEN [s EXCEPT !.pc = "done", !.raised = "CancelledError", !.pending = "none",
                   !.cancelled = TRUE, !.lastFrame = <<>>, !.lastCb = "none",
                   !.unclosed = 0]
    ELSE [OnException(s, "CancelledError") EXCEPT !.cancelled = TRUE,
                                                  !.lastFrame = <<>>, !.lastCb = "none"]

\* (a variant with one session shared by all loops: a connection of loop l
\* that ends takes the siblings' connections down with it)
StepSharedSession(l, new) ==
    [k \in Loops |->
        IF k = l THEN new
        ELSE IF new.pc = "backoff" /\ loop[k].pc = "receiving"
        THEN EndStreaming(loop[k], "error message")
        ELSE loop[k]]

\* a loop's locals (session, ws, message) are its own: a step of loop l
\* writes the state of loop l only
Step(l, new) == [loop EXCEPT ![l] = new]

----------------------------------------------------------------------------
(* a variant that enters the receive loop at once, with no control message *)
ConnectOkNoSubscription(l) ==
    /\ loop[l].pc = "connecting"
    /\ loop[l].conn < loop[l].conns
    /\ loop' = Step(l, [loop[l] EXCEPT !.pc = "receiving", !.conn = @ + 1,
                                       !.ws = loop[l].conn + 1, !.slept = 0,
                                       !.unclosed = @ + 1,
                                       !.prevSubs = IF loop[l].subs # <<>> THEN loop[l].subs ELSE @,
                                       !.subs = <<>>,
                                       !.lastLog = "attempting connect"])
    /\ UNCHANGED <<tx, eng, run>>

(* ws = await session.ws_connect(...) succeeds *)
ConnectOk(l) ==
    /\ loop[l].pc = "connecting"
    /\ loop[l].conn < loop[l].conns
    /\ loop' = Step(l, [loop[l] EXCEPT !.pc = "sending", !.conn = @ + 1,
                                       !.ws = loop[l].conn + 1, !.slept = 0,
                                       !.unclosed = @ + 1,
                                       !.prevSubs = IF loop[l].subs # <<>> THEN loop[l].subs ELSE @,
                                       !.subs = <<>>,
                                       !.lastLog = "attempting connect"])
    /\ UNCHANGED <<tx, eng, run>>

(* ws_connect raises *)
ConnectFail(l) ==
    /\ loop[l].pc = "connecting"
    /\ loop[l].conn < loop[l].conns
    /\ \E exc \in RaisedErrors :
          loop' = Step(l, OnException([loop[l] EXCEPT !.conn = @ + 1, !.slept = 0], exc))
    /\ UNCHANGED <<tx, eng, run>>

(* await ws.send_str(json.dumps(message)) succeeds *)
SendOk(l) ==
    /\ loop[l].pc = "sending"
    /\ loop' = Step(l, [loop[l] EXCEPT !.pc = "receiving",
                                       !.subs = Append(@, SubscriptionMessage(l, loop[l].conn)),
                                       !.lastLog = "sent subscription"])
    /\ UNCHANGED <<tx, eng, run>>

(* building the message or send_str raises *)
SendFail(l) ==
    /\ loop[l].pc = "sending"
    /\ \E exc \in RaisedErrors : loop' = Step(l, OnException(loop[l], exc))
    /\ UNCHANGED <<tx, eng, run>>

(* msg = await ws.receive() returns a frame, and the loop body runs on it *)
Receive(l) ==
    /\ loop[l].pc = "receiving"
    /\ \E frame \in Frames, cb \in {"ok", "raise"} :
          /\ frame \notin EndFrames => loop[l].frames > 0
          /\ loop' = Step(l, OnFrame([loop[l] EXCEPT !.received = Append(@, frame),
                                                     !.lastFrame = <<frame>>,
                                                     !.frames = IF frame \in EndFrames THEN @ ELSE @ - 1],
                                     frame, cb))
    /\ UNCHANGED <<tx, eng, run>>

(* ws.receive() raises *)
ReceiveFail(l) ==
    /\ loop[l].pc = "receiving"
    /\ \E exc \in RaisedErrors :
          loop' = Step(l, OnException([loop[l] EXCEPT !.lastFrame = <<>>, !.lastCb = "none"], exc))
    /\ UNCHANGED <<tx, eng, run>>

(* finally: await asyncio.sleep(5) returns *)
BackoffDone(l) ==
    /\ loop[l].pc = "backoff"
    /\ loop' = Step(l, AfterSleep(loop[l]))
    /\ UNCHANGED <<tx, eng, run>>

(* the task is cancelled while it waits at one of its awaits *)
Cancel(l) ==
    /\ loop[l].pc \in {"connecting", "sending", "receiving", "backoff"}
    /\ loop' = Step(l, OnCancel(loop[l]))
    /\ UNCHANGED <<tx, eng, run>>

FeedNext ==
    \E l \in Loops :
       \/ ConnectOk(l)
       \/ ConnectFail(l)
       \/ SendOk(l)
       \/ SendFail(l)
       \/ Receive(l)
       \/ ReceiveFail(l)
       \/ BackoffDone(l)
       \/ Cancel(l)

TxIdle == [pc |-> "idle"]

EngIdle == [pc |-> "idle"]

RunIdle == [pc |-> "idle"]

\* one loop, market or account, runs alone
FeedInit ==
    /\ \E only \in Loops : loop = [l \in Loops |-> LoopInit(l = only, MaxFrames, MaxConnects)]
    /\ tx = TxIdle
    /\ eng = EngIdle
    /\ run = RunIdle

FeedSpec == FeedInit /\ [][FeedNext]_vars

\* the loops run side by side: all three through one connection each, or
\* any two of them through a reconnect
SiblingInit ==
    /\ \/ loop = [l \in Loops |-> LoopInit(TRUE, 1, 1)]
       \/ \E out \in Loops : loop = [l \in Loops |-> LoopInit(l # out, 1, 2)]
    /\ tx = TxIdle
    /\ eng = EngIdle
    /\ run = RunIdle

SiblingSpec == SiblingInit /\ [][FeedNext]_vars

(***************************************************************************)
(*                    THE TRANSACTION RELIABILITY LAYER                    *)
(*                                                                         *)
(* A caller (approveContracts) fetches the nonce, signs the transaction    *)
(* and hands it to send_signed_transaction_with_receipt.  The RPC node is  *)
(* the environment: each call of it returns or raises as the node likes.   *)
(***************************************************************************)
\* an error message is a sequence of tokens; "x in msg" is Contains(msg, x)
Contains(msg, phrase) ==
    \E i \in 1..(Len(msg) - Len(phrase) + 1) :
       SubSeq(msg, i, i + Len(phrase) - 1) = phrase

\* the messages ValueError carries in the model
ValueErrorMsgs ==
    { <<"already", "known">>,
      <<"nonce", "too", "low">>,
      <<"replacement", "transaction", "underpriced">>,
      <<"insufficient", "funds">>,
      <<"insufficient", "funds", "for", "un", "known", "account">>,
      <<"execution", "reverted">> }

\* errors that are not ValueError (a transport error, or an RPC error of a
\* client library that does not raise ValueError)
OtherErrorMsgs == { <<"insufficient", "funds">>, <<"connection", "reset">> }

SendErrors ==
    {[cls |-> "ValueError", msg |-> m] : m \in ValueErrorMsgs}
    \cup {[cls |-> "Exception", msg |-> m] : m \in OtherErrorMsgs}

WaitErrors ==
    {[cls |-> "TimeExhausted", msg |-> <<"not", "in", "chain">>],
     [cls |-> "Exception", msg |-> <<"connection", "reset">>]}

\* (a variant that looks for "insufficient funds" first, in any exception)
ClassifyFundsFirst(err, hasHash) ==
    IF Contains(err.msg, <<"insufficient", "funds">>) THEN "fatal"
    ELSE IF err.cls = "ValueError"
    THEN IF Contains(err.msg, <<"already", "known">>) \/ Contains(err.msg, <<"known">>)
         THEN IF hasHash THEN "resume" ELSE "ignore"
         ELSE "retry"
    ELSE "retry"

\* (a variant that takes "nonce too low" for a fatal error)
ClassifyNonceLowFatal(err, hasHash) ==
    IF err.cls = "TimeExhausted" THEN "retry"
    ELSE IF err.cls = "ValueError"
    THEN IF Contains(err.msg, <<"already", "known">>) \/ Contains(err.msg, <<"known">>)
         THEN IF hasHash THEN "resume" ELSE "ignore"
         ELSE IF \/ Contains(err.msg, <<"replacement", "transaction", "underpriced">>)
                 \/ Contains(err.msg, <<"transaction", "underpriced">>)
         THEN "retry"
         ELSE IF \/ Contains(err.msg, <<"insufficient", "funds">>)
                 \/ Contains(err.msg, <<"nonce", "too", "low">>)
         THEN "fatal"
         ELSE "retry"
    ELSE "retry"

\* how the except clauses of the retry loop take an error, given whether
\* tx_hash is set:  resume  wait again for the receipt of tx_hash
\*                  ignore  retry, last_error left as it was
\*                  retry   retry, last_error = the error
\*                  fatal   re-raise
Classify(err, hasHash) ==
    IF err.cls = "TimeExhausted" THEN "retry"
    ELSE IF err.cls = "ValueError"
    THEN IF Contains(err.msg, <<"already", "known">>) \/ Contains(err.msg, <<"known">>)
         THEN IF hasHash THEN "resume" ELSE "ignore"
         ELSE IF \/ Contains(err.msg, <<"nonce", "too", "low">>)
                 \/ Contains(err.msg, <<"replacement", "transaction", "underpriced">>)
                 \/ Contains(err.msg, <<"transaction", "underpriced">>)
         THEN "retry"
         ELSE IF Contains(err.msg, <<"insufficient", "funds">>)
         THEN "fatal"
         ELSE "retry"
    ELSE "retry"

\* what an attempt's error is, for the record of the attempts
Tag(err) ==
    IF Contains(err.msg, <<"insufficient", "funds">>) THEN "insufficient funds"
    ELSE IF Contains(err.msg, <<"nonce", "too", "low">>) THEN "nonce too low"
    ELSE IF Contains(err.msg, <<"already", "known">>) THEN "already known"
    ELSE "other error"

(***************************************************************************)
(* The state of one submission:                                            *)
(*   pc           nonce | params | build | gas | sign | entry | loop | wait *)
(*                | known_wait | sleep                                     *)
(*                | final_wait | returned | raised                         *)
(*   max_retries, poll_interval, hasRaw   the arguments                    *)
(*   attempt, tx_hash, last_error         the function's locals            *)
(*   nonceFetches calls of get_pending_nonce                               *)
(*   sends        calls of send_raw_transaction                            *)
(*   finalWaits   receipt waits made after the loop                        *)
(*   waitTimeout  the timeout given to the last receipt wait               *)
(*   sleeps       the lengths of the sleeps taken, in order                *)
(*   log          what each attempt's send or wait came to, in order       *)
(*   result       the receipt returned                                     *)
(*   steps        the steps of approveContracts taken on the transaction   *)
(*   attached     what the unsigned transaction carries: nonce, fees, gas  *)
(*   signed       the transaction has been signed                          *)
(*   raisedErr    the error raised to the caller                           *)
(***************************************************************************)
TxStart(retries, poll, raw) ==
    [pc |-> "nonce", max_retries |-> retries, poll_interval |-> poll, hasRaw |-> raw,
     attempt |-> 0, tx_hash |-> "none", last_error |-> <<>>,
     nonceFetches |-> 0, sends |-> 0, finalWaits |-> 0, waitTimeout |-> 0,
     sleeps |-> <<>>, log |-> <<>>, result |-> <<>>, raisedErr |-> <<>>,
     steps |-> <<>>, attached |-> {}, signed |-> FALSE]

PollIntervals == {1, 2}

\* (a variant that is off by one: while attempt <= max_retries)
LoopContinuesOnceMore(t) == t.attempt <= t.max_retries

\* while attempt < max_retries
LoopContinues(t) == t.attempt < t.max_retries

\* return receipt: the receipt of tx_hash, got by the wait named via in
\* attempt number at
Return(t, via, at) ==
    [t EXCEPT !.pc = "returned",
              !.result = <<[hash |-> t.tx_hash, attempt |-> at, via |-> via]>>]

\* (a variant without the "if tx_hash" branch: an "already known" rejection
\* always goes on to the sleep and the next send)
OnErrorKnownResends(t, err) ==
    LET e == [cls |-> err.cls, msg |-> err.msg, at |-> t.attempt + 1]
        how == Classify(err, t.tx_hash # "none")
    IN IF how = "fatal" THEN [t EXCEPT !.pc = "raised", !.raisedErr = <<e>>]
       ELSE IF how \in {"resume", "ignore"} THEN [t EXCEPT !.pc = "sleep"]
       ELSE [t EXCEPT !.pc = "sleep", !.last_error = <<e>>]

\* the except clauses of the retry loop, on an error of attempt number
\* t.attempt + 1
OnError(t, err) ==
    LET e == [cls |-> err.cls, msg |-> err.msg, at |-> t.attempt + 1]
        how == Classify(err, t.tx_hash # "none")
    IN IF how = "fatal" THEN [t EXCEPT !.pc = "raised", !.raisedErr = <<e>>]
       ELSE IF how = "resume" THEN [t EXCEPT !.pc = "known_wait"]
       ELSE IF how = "ignore" THEN [t EXCEPT !.pc = "sleep"]
       ELSE [t EXCEPT !.pc = "sleep", !.last_error = <<e>>]

\* (a variant that never gives up: with the attempts used up it goes back
\* to the head of the loop instead of raising)
RaiseRuntimeErrorNeverGivesUp(t) == [t EXCEPT !.pc = "loop", !.finalWaits = 0]

\* raise RuntimeError(f"Failed to send transaction after ... {last_error}")
RaiseRuntimeError(t) ==
    [t EXCEPT !.pc = "raised",
              !.raisedErr = <<[cls |-> "RuntimeError", msg |-> <<"failed", "after", "retries">>,
                               at |-> t.attempt, cause |-> t.last_error]>>]

\* (a variant of the statement order that signs before the gas estimate)
StepAfterSignsEarly(step) ==
    CASE step = "nonce" -> "params"
      [] step = "params" -> "build"
      [] step = "build" -> "sign"
      [] step = "sign" -> "gas"
      [] step = "gas" -> "entry"

\* the statement that follows each statement of an approval in
\* approveContracts
StepAfter(step) ==
    CASE step = "nonce" -> "params"
      [] step = "params" -> "build"
      [] step = "build" -> "gas"
      [] step = "gas" -> "sign"
      [] step = "sign" -> "entry"

\* the statement at t.pc has run
Stepped(t) == [t EXCEPT !.pc = StepAfter(t.pc), !.steps = Append(@, t.pc)]

----------------------------------------------------------------------------
(* usdc_nonce = get_pending_nonce(web3, wallet.address) returns *)
TxFetchNonce ==
    /\ tx.pc = "nonce"
    /\ tx' = [Stepped(tx) EXCEPT !.nonceFetches = @ + 1]
    /\ UNCHANGED <<loop, eng, run>>

(* get_pending_nonce raises (both counts failed): approveContracts ends *)
TxFetchNonceFail ==
    /\ tx.pc = "nonce"
    /\ tx' = [tx EXCEPT !.pc = "raised", !.nonceFetches = @ + 1,
                        !.raisedErr = <<[cls |-> "Exception",
                                         msg |-> <<"connection", "reset">>, at |-> 0]>>]
    /\ UNCHANGED <<loop, eng, run>>

(* tx_params = build_tx_params(..., nonce=usdc_nonce, eip1559=True, ...): the
   nonce and the fees of build_eip1559_fees, which never raises *)
TxBuildParams ==
    /\ tx.pc = "params"
    /\ tx' = [Stepped(tx) EXCEPT !.attached = @ \cup {"nonce", "fees"}]
    /\ UNCHANGED <<loop, eng, run>>

(* raw_txn = contract.functions.approve(...).build_transaction(tx_params) *)
TxBuildTransaction ==
    /\ tx.pc = "build"
    /\ tx' = Stepped(tx)
    /\ UNCHANGED <<loop, eng, run>>

(* raw_txn = estimate_and_attach_gas(web3, raw_txn): the estimate succeeds
   and gas is attached, or fails and the transaction is left as it was *)
TxEstimateGas ==
    /\ tx.pc = "gas"
    /\ \E ok \in BOOLEAN :
          tx' = [Stepped(tx) EXCEPT !.attached = IF ok THEN @ \cup {"gas"} ELSE @]
    /\ UNCHANGED <<loop, eng, run>>

(* signed_txn = Account.sign_transaction(raw_txn, key): what the transaction
   carries, the nonce included, is signed into the raw bytes *)
TxSign ==
    /\ tx.pc = "sign"
    /\ tx' = [Stepped(tx) EXCEPT !.signed = TRUE]
    /\ UNCHANGED <<loop, eng, run>>

(* send_signed_transaction_with_receipt is entered: raw bytes are checked *)
TxEnter ==
    /\ tx.pc = "entry"
    /\ tx' = IF tx.hasRaw
             THEN [tx EXCEPT !.pc = "loop", !.attempt = 0, !.last_error = <<>>,
                             !.tx_hash = "none"]
             ELSE [tx EXCEPT !.pc = "raised",
                             !.raisedErr = <<[cls |-> "ValueError",
                                              msg |-> <<"missing", "raw", "bytes">>,
                                              at |-> 0]>>]
    /\ UNCHANGED <<loop, eng, run>>

(* tx_hash = web3.eth.send_raw_transaction(raw) returns *)
TxSendOk ==
    /\ tx.pc = "loop"
    /\ LoopContinues(tx)
    /\ tx' = [tx EXCEPT !.pc = "wait", !.sends = @ + 1, !.tx_hash = "H"]
    /\ UNCHANGED <<loop, eng, run>>

(* send_raw_transaction raises *)
TxSendFail ==
    /\ tx.pc = "loop"
    /\ LoopContinues(tx)
    /\ \E err \in SendErrors :
          tx' = OnError([tx EXCEPT !.sends = @ + 1, !.log = Append(@, Tag(err))], err)
    /\ UNCHANGED <<loop, eng, run>>

(* wait_for_transaction_receipt(tx_hash, timeout=timeout) returns *)
TxWaitOk ==
    /\ tx.pc = "wait"
    /\ tx' = Return([tx EXCEPT !.waitTimeout = ReceiptTimeout, !.log = Append(@, "ok")],
                    "wait", tx.attempt + 1)
    /\ UNCHANGED <<loop, eng, run>>

(* wait_for_transaction_receipt raises *)
TxWaitFail ==
    /\ tx.pc = "wait"
    /\ \E err \in WaitErrors :
          tx' = OnError([tx EXCEPT !.waitTimeout = ReceiptTimeout,
                                   !.log = Append(@, "wait failed")], err)
    /\ UNCHANGED <<loop, eng, run>>

(* "already known" with tx_hash set: the receipt wait in the handler returns *)
TxKnownWaitOk ==
    /\ tx.pc = "known_wait"
    /\ tx' = Return([tx EXCEPT !.waitTimeout = ReceiptTimeout], "known_wait", tx.attempt + 1)
    /\ UNCHANGED <<loop, eng, run>>

(* that wait raises: last_error = e2 *)
TxKnownWaitFail ==
    /\ tx.pc = "known_wait"
    /\ \E err \in WaitErrors :
          tx' = [tx EXCEPT !.pc = "sleep", !.waitTimeout = ReceiptTimeout,
                           !.last_error = <<[cls |-> err.cls, msg |-> err.msg,
                                             at |-> tx.attempt + 1]>>]
    /\ UNCHANGED <<loop, eng, run>>

(* attempt += 1; time.sleep(poll_interval * attempt) *)
TxSleep ==
    /\ tx.pc = "sleep"
    /\ tx' = [tx EXCEPT !.pc = "loop", !.attempt = @ + 1,
                        !.sleeps = Append(@, tx.poll_interval * (tx.attempt + 1))]
    /\ UNCHANGED <<loop, eng, run>>

(* the loop is left: if tx_hash, one more wait; else raise RuntimeError *)
TxLoopExit ==
    /\ tx.pc = "loop"
    /\ ~LoopContinues(tx)
    /\ tx' = IF tx.tx_hash # "none"
             THEN [tx EXCEPT !.pc = "final_wait"]
             ELSE RaiseRuntimeError(tx)
    /\ UNCHANGED <<loop, eng, run>>

(* wait_for_transaction_receipt(tx_hash, timeout=poll_interval * max_retries)
   returns *)
TxFinalWaitOk ==
    /\ tx.pc = "final_wait"
    /\ tx' = Return([tx EXCEPT !.finalWaits = @ + 1,
                               !.waitTimeout = tx.poll_interval * tx.max_retries],
                    "final_wait", tx.attempt)
    /\ UNCHANGED <<loop, eng, run>>

(* that wait raises: pass, then raise RuntimeError *)
TxFinalWaitFail ==
    /\ tx.pc = "final_wait"
    /\ tx' = RaiseRuntimeError([tx EXCEPT !.finalWaits = @ + 1,
                                          !.waitTimeout = tx.poll_interval * tx.max_retries])
    /\ UNCHANGED <<loop, eng, run>>

TxNext ==
    \/ TxFetchNonce
    \/ TxFetchNonceFail
    \/ TxBuildParams
    \/ TxBuildTransaction
    \/ TxEstimateGas
    \/ TxSign
    \/ TxEnter
    \/ TxSendOk
    \/ TxSendFail
    \/ TxWaitOk
    \/ TxWaitFail
    \/ TxKnownWaitOk
    \/ TxKnownWaitFail
    \/ TxSleep
    \/ TxLoopExit
    \/ TxFinalWaitOk
    \/ TxFinalWaitFail

TxInit ==
    /\ loop = [l \in Loops |-> [pc |-> "idle"]]
    /\ \E retries \in 0..MaxRetries, poll \in PollIntervals, raw \in BOOLEAN :
          tx = TxStart(retries, poll, raw)
    /\ eng = EngIdle
    /\ run = RunIdle

TxSpec == TxInit /\ [][TxNext]_vars

\* every RPC call, receipt wait and sleep returns or fails in the end: a
\* statement that can run does run
TxLiveSpec == TxSpec /\ WF_vars(TxNext)

(***************************************************************************)
(*                            approveContracts                             *)
(*                                                                         *)
(* For each of the three spender addresses in turn: the USDC allowance is  *)
(* read and an approve transaction issued when it is needed, then the CTF  *)
(* operator approval is read and a setApprovalForAll transaction issued    *)
(* when it is needed.  Each transaction goes through the steps of the      *)
(* submission modelled above, with the defaults of                         *)
(* send_signed_transaction_with_receipt.  The state of one run:            *)
(*   pc          allowance | usdc_tx | approved | ctf_tx | done | aborted   *)
(*   i           the index of the spender address at hand                  *)
(*   read        the reply to the last contract read                       *)
(*   started     approvals whose statements have been entered              *)
(*   receipts    submissions that returned a receipt                       *)
(*   allApproved every read so far showed the approval in place            *)
(***************************************************************************)
\* MAX_INT = 2**256 - 1, at the width of the model
MAX_INT == 2^UintBits - 1

\* the addresses of the for loop
NumSpenders == 3

\* max_retries=3 and poll_interval=2, the defaults of
\* send_signed_transaction_with_receipt
DefaultMaxRetries == 3

DefaultPollInterval == 2

\* replies of allowance(...).call() and isApprovedForAll(...).call(): a
\* value, or an exception
AllowanceReads ==
    {[ok |-> FALSE, val |-> 0]} \cup {[ok |-> TRUE, val |-> a] : a \in {0, MAX_INT - 1, MAX_INT}}

ApprovedReads == {[ok |-> FALSE, val |-> FALSE], [ok |-> TRUE, val |-> FALSE], [ok |-> TRUE, val |-> TRUE]}

RunStart ==
    [pc |-> "allowance", i |-> 1, read |-> [ok |-> FALSE, val |-> 0],
     started |-> 0, receipts |-> 0, allApproved |-> TRUE]

\* (a variant that approves without looking at the allowance)
NeedsApproveUnchecked(read) == TRUE

\* except: current_allowance = 0;  if current_allowance < MAX_INT
NeedsApprove(read) ==
    LET current_allowance == IF read.ok THEN read.val ELSE 0
    IN current_allowance < MAX_INT

\* except: already_approved = False;  if not already_approved
NeedsSetApproval(read) ==
    LET already_approved == IF read.ok THEN read.val ELSE FALSE
    IN ~already_approved

\* the end of the for loop's body: the next address, or the end of the run
NextSpender(r) ==
    IF r.i < NumSpenders THEN [r EXCEPT !.pc = "allowance", !.i = @ + 1]
    ELSE [r EXCEPT !.pc = "done"]

\* (a variant that catches the error of a submission and goes on)
AfterSubmissionGoesOn(r, t, then) ==
    IF t.pc = "returned" THEN [then EXCEPT !.receipts = @ + 1] ELSE then

\* send_signed_transaction_with_receipt returns the receipt, and the run
\* goes on to  then;  or it raises, and nothing in approveContracts catches
\* the error
AfterSubmission(r, t, then) ==
    IF t.pc = "returned" THEN [then EXCEPT !.receipts = @ + 1]
    ELSE [r EXCEPT !.pc = "aborted"]

\* current_allowance = usdc_contract.functions.allowance(...).call(), and
\* the if statement on it
ApReadAllowance ==
    /\ run.pc = "allowance"
    /\ \E read \in AllowanceReads :
          LET r == [run EXCEPT !.read = read,
                               !.allApproved = @ /\ read = [ok |-> TRUE, val |-> MAX_INT]]
          IN IF NeedsApprove(read)
             THEN /\ run' = [r EXCEPT !.pc = "usdc_tx", !.started = @ + 1]
                  /\ tx' = TxStart(DefaultMaxRetries, DefaultPollInterval, TRUE)
             ELSE /\ run' = [r EXCEPT !.pc = "approved"]
                  /\ tx' = tx
    /\ UNCHANGED <<loop, eng>>

\* the USDC approve is over: print, time.sleep(1), or the error ends the run
ApUsdcOver ==
    /\ run.pc = "usdc_tx"
    /\ tx.pc \in {"returned", "raised"}
    /\ run' = AfterSubmission(run, tx, [run EXCEPT !.pc = "approved"])
    /\ tx' = IF run'.pc = "aborted" THEN tx ELSE TxIdle
    /\ UNCHANGED <<loop, eng>>

\* already_approved = ctf_contract.functions.isApprovedForAll(...).call(),
\* and the if statement on it
ApReadApproved ==
    /\ run.pc = "approved"
    /\ \E read \in ApprovedReads :
          LET r == [run EXCEPT !.read = read,
                               !.allApproved = @ /\ read = [ok |-> TRUE, val |-> TRUE]]
          IN IF NeedsSetApproval(read)
             THEN /\ run' = [r EXCEPT !.pc = "ctf_tx", !.started = @ + 1]
                  /\ tx' = TxStart(DefaultMaxRetries, DefaultPollInterval, TRUE)
             ELSE /\ run' = NextSpender(r)
                  /\ tx' = tx
    /\ UNCHANGED <<loop, eng>>

\* the setApprovalForAll is over: print, time.sleep(1), or the error ends
\* the run
ApCtfOver ==
    /\ run.pc = "ctf_tx"
    /\ tx.pc \in {"returned", "raised"}
    /\ run' = AfterSubmission(run, tx, NextSpender(run))
    /\ tx' = IF run'.pc = "aborted" THEN tx ELSE TxIdle
    /\ UNCHANGED <<loop, eng>>

ApproveNext ==
    \/ ApReadAllowance
    \/ ApUsdcOver
    \/ ApReadApproved
    \/ ApCtfOver
    \/ TxNext

ApproveInit ==
    /\ loop = [l \in Loops |-> [pc |-> "idle"]]
    /\ tx = TxIdle
    /\ eng = EngIdle
    /\ run = RunStart

ApproveSpec == ApproveInit /\ [][ApproveNext]_vars

(***************************************************************************)
(*                       THE REWARD-SCORING ENGINE                         *)
(*                                                                         *)
(* The functions of data_updater/liquidity_score.py are operators.  The    *)
(* code computes in floats; here a number is an exact fraction <<n, d>>    *)
(* with d > 0, in lowest terms, so that equal numbers are equal values:    *)
(* rounding to double precision is left out.  A call that raises gives     *)
(* [raised |-> the exception]; one that returns gives raised = "none".     *)
(***************************************************************************)
RECURSIVE Gcd(_, _)
Gcd(a, b) == IF b = 0 THEN a ELSE Gcd(b, a % b)

\* the number n / d, for d > 0
Q(n, d) == LET g == Gcd(IF n < 0 THEN -n ELSE n, d) IN <<n \div g, d \div g>>

Zero == Q(0, 1)

\* x + y, x - y, x * y, and x / y for y # 0
Plus(x, y) == Q(x[1] * y[2] + y[1] * x[2], x[2] * y[2])

Minus(x, y) == Q(x[1] * y[2] - y[1] * x[2], x[2] * y[2])

Times(x, y) == Q(x[1] * y[1], x[2] * y[2])

Over(x, y) == IF y[1] > 0 THEN Q(x[1] * y[2], x[2] * y[1])
              ELSE Q(-(x[1] * y[2]), x[2] * (-y[1]))

\* x < y, x <= y
Less(x, y) == x[1] * y[2] < y[1] * x[2]

LessEq(x, y) == x[1] * y[2] <= y[1] * x[2]

\* abs(x), max(x, y), min(x, y), int(math.floor(x))
abs(x) == IF x[1] < 0 THEN <<-x[1], x[2]>> ELSE x

max(x, y) == IF Less(x, y) THEN y ELSE x

min(x, y) == IF Less(y, x) THEN y ELSE x

floor(x) == x[1] \div x[2]

\* a returned value, a raised exception
Returns(val) == [raised |-> "none", val |-> val]

Raises(exc) == [raised |-> exc, val |-> Zero]

\* (a variant that weighs the ratio linearly: ratio * b_multiplier)
utility_score_linear(v_cents, s_cents, b_multiplier) ==
    LET s == IF Less(s_cents, Zero) THEN Zero ELSE s_cents
    IN IF Less(v_cents, s) THEN Returns(Zero)
       ELSE IF v_cents = Zero THEN Raises("ZeroDivisionError")
       ELSE Returns(Times(Over(Minus(v_cents, s), v_cents), b_multiplier))

\* (a variant without the clamp of a negative spread)
utility_score_unclamped(v_cents, s_cents, b_multiplier) ==
    IF Less(v_cents, s_cents) THEN Returns(Zero)
    ELSE IF v_cents = Zero THEN Raises("ZeroDivisionError")
    ELSE LET ratio == Over(Minus(v_cents, s_cents), v_cents)
         IN Returns(Times(Times(ratio, ratio), b_multiplier))

\* utility_score: a negative s_cents is taken as 0; beyond v_cents the
\* score is 0; else ((v - s) / v)^2 * b, the division raising for v = 0
utility_score(v_cents, s_cents, b_multiplier) ==
    LET s == IF Less(s_cents, Zero) THEN Zero ELSE s_cents
    IN IF Less(v_cents, s) THEN Returns(Zero)
       ELSE IF v_cents = Zero THEN Raises("ZeroDivisionError")
       ELSE LET ratio == Over(Minus(v_cents, s), v_cents)
            IN Returns(Times(Times(ratio, ratio), b_multiplier))

\* score_side: the sum of utility_score(v, |price - mid| * 100, b) * size
\* over the orders <<price, size>>, added up in the order of the list
RECURSIVE score_side(_, _, _, _)
score_side(orders, mid, v_cents, b) ==
    IF orders = <<>> THEN Returns(Zero)
    ELSE LET n == Len(orders)
             total == score_side(SubSeq(orders, 1, n - 1), mid, v_cents, b)
             s_cents == Times(abs(Minus(orders[n][1], mid)), Q(100, 1))
             S == utility_score(v_cents, s_cents, b)
         IN IF total.raised # "none" THEN total
            ELSE IF S.raised # "none" THEN S
            ELSE Returns(Plus(total.val, Times(S.val, orders[n][2])))

\* the ends of the two-sided band, 0.10 <= mid <= 0.90
BandLow == Q(10, 100)

BandHigh == Q(90, 100)

\* (a variant that discounts the first score only)
compute_qmin_first_only(q_bid, q_ask, mid, c_scale) ==
    IF LessEq(BandLow, mid) /\ LessEq(mid, BandHigh)
    THEN max(min(q_bid, q_ask), Over(q_bid, c_scale))
    ELSE min(q_bid, q_ask)

\* compute_qmin(q_bid, q_ask, mid, c_scale), for c_scale # 0
compute_qmin(q_bid, q_ask, mid, c_scale) ==
    IF LessEq(BandLow, mid) /\ LessEq(mid, BandHigh)
    THEN max(min(q_bid, q_ask), max(Over(q_bid, c_scale), Over(q_ask, c_scale)))
    ELSE min(q_bid, q_ask)

\* compute_qmin_tokens(q_one, q_two, mid, c_scale): the same rule, on the
\* scores of the two tokens of a market
compute_qmin_tokens(q_one, q_two, mid, c_scale) ==
    IF LessEq(BandLow, mid) /\ LessEq(mid, BandHigh)
    THEN max(min(q_one, q_two), max(Over(q_one, c_scale), Over(q_two, c_scale)))
    ELSE min(q_one, q_two)

\* the default of the parameter c_scale
DefaultCScale == Q(3, 1)

\* float(x) for the texts an order-book summary holds
FloatOf ==
    ("0.45" :> Q(45, 100)) @@ ("0.49" :> Q(49, 100)) @@ ("0.51" :> Q(51, 100))
    @@ ("0.55" :> Q(55, 100)) @@ ("1" :> Q(1, 1)) @@ ("10" :> Q(10, 1))

\* to_float(x): float(x), or the default 0.0 when float(x) raises
to_float(x) == IF x \in DOMAIN FloatOf THEN FloatOf[x] ELSE Zero

\* the entries of one side of a book as <<price, size>> pairs, those with
\* size < min_size or farther than v_cents from mid left out
RECURSIVE BookSide(_, _, _, _)
BookSide(entries, mid, v_cents, min_size) ==
    IF entries = <<>> THEN <<>>
    ELSE LET n == Len(entries)
             p == to_float(entries[n].price)
             s == to_float(entries[n].size)
             rest == BookSide(SubSeq(entries, 1, n - 1), mid, v_cents, min_size)
         IN IF LessEq(min_size, s) /\ LessEq(Times(abs(Minus(p, mid)), Q(100, 1)), v_cents)
            THEN Append(rest, <<p, s>>)
            ELSE rest

\* summarize_current_book(ob, mid, v_cents, b, min_size): the scores of the
\* two sides and their qmin, computed with the default c_scale
summarize_current_book(ob, mid, v_cents, b, min_size) ==
    LET q_bids == score_side(BookSide(ob.bids, mid, v_cents, min_size), mid, v_cents, b)
        q_asks == score_side(BookSide(ob.asks, mid, v_cents, min_size), mid, v_cents, b)
    IN IF q_bids.raised # "none" THEN q_bids
       ELSE IF q_asks.raised # "none" THEN q_asks
       ELSE [raised |-> "none", q_bids |-> q_bids.val, q_asks |-> q_asks.val,
             qmin |-> compute_qmin(q_bids.val, q_asks.val, mid, DefaultCScale)]

One == Q(1, 1)

\* n_steps = max(1, int(math.floor(v_dollars / tick_size))), tick_size # 0
n_steps(v_cents, tick_size) ==
    LET v_dollars == Over(v_cents, Q(100, 1))
        steps == floor(Over(v_dollars, tick_size))
    IN IF steps < 1 THEN 1 ELSE steps

\* the candidate prices mid - i * tick_size, i = 1 .. n, inside (0, 1)
bid_prices(mid, tick_size, n) ==
    SelectSeq([i \in 1..n |-> Minus(mid, Times(Q(i, 1), tick_size))],
              LAMBDA bp : Less(Zero, bp) /\ Less(bp, One))

\* the candidate prices mid + i * tick_size, i = 1 .. n, inside (0, 1]
ask_prices(mid, tick_size, n) ==
    SelectSeq([i \in 1..n |-> Plus(mid, Times(Q(i, 1), tick_size))],
              LAMBDA ap : Less(Zero, ap) /\ LessEq(ap, One))

\* (a variant that gives the whole of usdc to both sides)
side_budget_unsplit(usdc, side, of) ==
    IF side = "both" THEN usdc
    ELSE IF side = "bid" THEN (IF of = "bids" THEN usdc ELSE Zero)
    ELSE (IF of = "asks" THEN usdc ELSE Zero)

\* budget_bid (of = "bids") and budget_ask (of = "asks"): any side other
\* than "both" and "bid" is the else branch, the asks
side_budget(usdc, side, of) ==
    IF side = "both" THEN Over(usdc, Q(2, 1))
    ELSE IF side = "bid" THEN (IF of = "bids" THEN usdc ELSE Zero)
    ELSE (IF of = "asks" THEN usdc ELSE Zero)

\* min(prices, key=lambda x: abs(x - mid)): the first of the nearest
closest(prices, mid) ==
    LET dist(i) == abs(Minus(prices[i], mid))
        k == CHOOSE i \in 1..Len(prices) :
                \A j \in 1..Len(prices) :
                   /\ LessEq(dist(i), dist(j))
                   /\ dist(j) = dist(i) => i <= j
    IN prices[k]

\* (a variant that keeps every candidate, whatever its size)
allocate_keep_all(prices, budget, min_size, mid) ==
    IF LessEq(budget, Zero) \/ prices = <<>> THEN <<>>
    ELSE LET notional_each == Over(budget, Q(Len(prices), 1))
         IN [i \in 1..Len(prices) |-> <<prices[i], Over(notional_each, prices[i])>>]

\* allocate(prices, budget): the budget split evenly over the candidates,
\* those of size >= min_size kept; if none is, the whole budget on the
\* nearest candidate, kept if its size >= min_size
allocate(prices, budget, min_size, mid) ==
    IF LessEq(budget, Zero) \/ prices = <<>> THEN <<>>
    ELSE LET notional_each == Over(budget, Q(Len(prices), 1))
             sized == [i \in 1..Len(prices) |->
                          <<prices[i], Over(notional_each, prices[i])>>]
             usable == SelectSeq(sized, LAMBDA o : LessEq(min_size, o[2]))
             near == closest(prices, mid)
             size == Over(budget, near)
         IN IF usable # <<>> THEN usable
            ELSE IF LessEq(min_size, size) THEN << <<near, size>> >>
            ELSE <<>>

\* propose_orders(mid, tick_size, v_cents, min_size, usdc, side)
propose_orders(mid, tick_size, v_cents, min_size, usdc, side) ==
    IF tick_size = Zero THEN [raised |-> "ZeroDivisionError", bids |-> <<>>, asks |-> <<>>]
    ELSE LET n == n_steps(v_cents, tick_size)
         IN [raised |-> "none",
             bids |-> allocate(bid_prices(mid, tick_size, n),
                               side_budget(usdc, side, "bids"), min_size, mid),
             asks |-> allocate(ask_prices(mid, tick_size, n),
                               side_budget(usdc, side, "asks"), min_size, mid)]

\* a field of a market's JSON object: absent, or a list of token ids
Absent == [present |-> FALSE, ids |-> <<>>]

Listed(ids) == [present |-> TRUE, ids |-> ids]

\* x or y, for two such fields: x unless it is absent or empty
OrElse(x, y) == IF x.present /\ x.ids # <<>> THEN x ELSE y

\* get_market_and_tokens, from the market the lookups found (found = FALSE:
\* none): ValueError without a market or with fewer than two token ids, else
\* the first two ids
get_market_and_tokens(found, market) ==
    IF ~found THEN [raised |-> "ValueError", token_ids |-> <<>>]
    ELSE LET token_ids == OrElse(OrElse(market.clobTokenIds, market.clob_token_ids),
                                 Listed(<<>>)).ids
         IN IF token_ids = <<>> \/ Len(token_ids) < 2
            THEN [raised |-> "ValueError", token_ids |-> <<>>]
            ELSE [raised |-> "none", token_ids |-> SubSeq(token_ids, 1, 2)]

----------------------------------------------------------------------------
(* The calls of the engine.  eng holds one call: the function (op), its    *)
(* arguments (args) and, once the call is made (pc = "done"), what it      *)
(* gave (out).                                                             *)
MaxCents == 3

VCentsIn == {Q(k, 1) : k \in -1..MaxCents}

SCentsIn == {Q(k, 2) : k \in -2..(2 * MaxCents + 2)}

BMults == {Q(0, 1), Q(1, 1), Q(3, 2)}

Scores == {Q(0, 1), Q(1, 2), Q(2, 1), Q(10, 1)}

QminMids == {Q(5, 100), Q(9, 100), Q(10, 100), Q(50, 100), Q(90, 100), Q(91, 100)}

CScales == {Q(3, 1), Q(2, 1), Q(1, 2)}

Entry(price, size) == [price |-> price, size |-> size]

BookSides ==
    { <<>>,
      <<Entry("0.49", "10")>>,
      <<Entry("0.49", "10"), Entry("0.45", "10")>>,
      <<Entry("0.49", "1")>>,
      <<Entry("0.51", "10"), Entry("0.49", "10")>>,
      <<Entry("0.51", "10"), Entry("0.55", "n/a")>> }

BookMids == {Q(50, 100), Q(48, 100)}

LadderMids == {Q(50, 100), Q(2, 100), Q(98, 100), Q(99, 100), Q(101, 100)}

TickSizes == {Q(1, 100), Q(2, 100), Q(5, 100), Zero, Q(-1, 100)}

LadderCents == {Q(k, 1) : k \in 0..MaxCents}

MinSizes == {Q(5, 1), Q(32, 1), Q(60, 1), Q(200, 1)}

Budgets == {Zero, Q(10, 1), Q(100, 1)}

Sides == {"both", "bid", "ask"}

MaxIds == 3

TokenIdFields == {Absent} \cup {Listed([i \in 1..k |-> i]) : k \in 0..MaxIds}

OrderLists ==
    { <<>>,
      << <<Q(49, 100), Q(10, 1)>> >>,
      << <<Q(50, 100), Q(10, 1)>> >>,
      << <<Q(49, 100), Q(10, 1)>>, <<Q(47, 100), Q(20, 1)>> >> }

ScoreSideMids == {Q(50, 100), Q(-1, 100), Q(3, 2)}

Call(op, args) == [pc |-> "call", op |-> op, args |-> args]

Done(out) == [pc |-> "done", op |-> eng.op, args |-> eng.args, out |-> out]

EngUtilityScore ==
    /\ eng.pc = "call" /\ eng.op = "utility_score"
    /\ eng' = Done(utility_score(eng.args.v_cents, eng.args.s_cents, eng.args.b_multiplier))
    /\ UNCHANGED <<loop, tx, run>>

EngScoreSide ==
    /\ eng.pc = "call" /\ eng.op = "score_side"
    /\ eng' = Done(score_side(eng.args.orders, eng.args.mid, eng.args.v_cents, eng.args.b))
    /\ UNCHANGED <<loop, tx, run>>

EngComputeQmin ==
    /\ eng.pc = "call" /\ eng.op = "compute_qmin"
    /\ eng' = Done(compute_qmin(eng.args.q_one, eng.args.q_two, eng.args.mid,
                                eng.args.c_scale))
    /\ UNCHANGED <<loop, tx, run>>

EngComputeQminTokens ==
    /\ eng.pc = "call" /\ eng.op = "compute_qmin_tokens"
    /\ eng' = Done(compute_qmin_tokens(eng.args.q_one, eng.args.q_two, eng.args.mid,
                                       eng.args.c_scale))
    /\ UNCHANGED <<loop, tx, run>>

(* the caller holds the scoring parameters v_cents, b, c_scale and min_size;
   summarize_current_book has no parameter for c_scale *)
EngSummarizeCurrentBook ==
    /\ eng.pc = "call" /\ eng.op = "summarize_current_book"
    /\ eng' = Done(summarize_current_book(eng.args.ob, eng.args.mid, eng.args.v_cents,
                                          eng.args.b, eng.args.min_size))
    /\ UNCHANGED <<loop, tx, run>>

EngProposeOrders ==
    /\ eng.pc = "call" /\ eng.op = "propose_orders"
    /\ eng' = Done(propose_orders(eng.args.mid, eng.args.tick_size, eng.args.v_cents,
                                  eng.args.min_size, eng.args.usdc, eng.args.side))
    /\ UNCHANGED <<loop, tx, run>>

EngGetMarketAndTokens ==
    /\ eng.pc = "call" /\ eng.op = "get_market_and_tokens"
    /\ eng' = Done(get_market_and_tokens(eng.args.found, eng.args.market))
    /\ UNCHANGED <<loop, tx, run>>

ScoreNext ==
    \/ EngUtilityScore
    \/ EngScoreSide
    \/ EngComputeQmin
    \/ EngComputeQminTokens
    \/ EngSummarizeCurrentBook
    \/ EngProposeOrders
    \/ EngGetMarketAndTokens

ScoreInit ==
    /\ loop = [l \in Loops |-> [pc |-> "idle"]]
    /\ tx = TxIdle
    /\ run = RunIdle
    /\ \/ \E v \in VCentsIn, s \in SCentsIn, b \in BMults :
             eng = Call("utility_score", [v_cents |-> v, s_cents |-> s, b_multiplier |-> b])
       \/ \E orders \in OrderLists, mid \in ScoreSideMids, v \in VCentsIn, b \in BMults :
             eng = Call("score_side", [orders |-> orders, mid |-> mid, v_cents |-> v, b |-> b])
       \/ \E op \in {"compute_qmin", "compute_qmin_tokens"},
             q1 \in Scores, q2 \in Scores, mid \in QminMids, c \in CScales :
             eng = Call(op, [q_one |-> q1, q_two |-> q2, mid |-> mid, c_scale |-> c])
       \/ \E bids \in BookSides, asks \in BookSides, mid \in BookMids,
             v \in LadderCents \ {Zero}, c \in CScales :
             eng = Call("summarize_current_book",
                        [ob |-> [bids |-> bids, asks |-> asks], mid |-> mid, v_cents |-> v,
                         b |-> One, c_scale |-> c, min_size |-> Q(5, 1)])
       \/ \E mid \in LadderMids, tick \in TickSizes, v \in LadderCents,
             m \in MinSizes, usdc \in Budgets, side \in Sides :
             eng = Call("propose_orders",
                        [mid |-> mid, tick_size |-> tick, v_cents |-> v, min_size |-> m,
                         usdc |-> usdc, side |-> side])
       \/ \E found \in BOOLEAN, f1 \in TokenIdFields, f2 \in TokenIdFields :
             eng = Call("get_market_and_tokens",
                        [found |-> found,
                         market |-> [clobTokenIds |-> f1, clob_token_ids |-> f2]])

ScoreSpec == ScoreInit /\ [][ScoreNext]_vars

(***************************************************************************)
(*                       THE TRANSACTION UTILITIES                         *)
(*                                                                         *)
(* get_pending_nonce, build_eip1559_fees and estimate_and_attach_gas of    *)
(* poly_data/utils.py, as operators on the replies of the RPC node.  A     *)
(* reply is [ok |-> the query returned, val |-> what it returned]; the     *)
(* pending block's reply also tells whether it has a baseFeePerGas field.  *)
(* eng holds one call of one of them, as for the scoring engine.           *)
(***************************************************************************)
Reply(val) == [ok |-> TRUE, val |-> val]

Failed == [ok |-> FALSE, val |-> 0]

\* Web3.to_wei(x, 'gwei')
GweiInWei == 1000000000

to_wei_gwei(x) == x * GweiInWei

\* (a variant whose first branch leaves the priority fee out of the cap)
build_eip1559_fees_base_only(block, max_priority_fee, gas_price, priority_fee_gwei, multiplier) ==
    LET priority == IF max_priority_fee.ok THEN max_priority_fee.val
                    ELSE to_wei_gwei(priority_fee_gwei)
        max_fee == IF block.ok /\ block.has
                   THEN floor(Times(multiplier, Q(block.val, 1)))
                   ELSE IF gas_price.ok THEN gas_price.val + priority
                   ELSE priority
    IN [raised |-> "none", maxPriorityFeePerGas |-> priority, maxFeePerGas |-> max_fee]

\* (a variant without the gas-price fallback: with no base fee, the priority
\* fee alone)
build_eip1559_fees_no_gas_price(block, max_priority_fee, gas_price, priority_fee_gwei, multiplier) ==
    LET priority == IF max_priority_fee.ok THEN max_priority_fee.val
                    ELSE to_wei_gwei(priority_fee_gwei)
        max_fee == IF block.ok /\ block.has
                   THEN floor(Times(multiplier, Q(block.val, 1))) + priority
                   ELSE priority
    IN [raised |-> "none", maxPriorityFeePerGas |-> priority, maxFeePerGas |-> max_fee]

\* build_eip1559_fees: block, max_priority_fee and gas_price are the node's
\* replies to get_block('pending'), eth.max_priority_fee and eth.gas_price
build_eip1559_fees(block, max_priority_fee, gas_price, priority_fee_gwei, multiplier) ==
    LET base_fee_known == block.ok /\ block.has
        priority == IF max_priority_fee.ok THEN max_priority_fee.val
                    ELSE to_wei_gwei(priority_fee_gwei)
        max_fee == IF base_fee_known
                   THEN floor(Times(multiplier, Q(block.val, 1))) + priority
                   ELSE IF gas_price.ok THEN gas_price.val + priority
                   ELSE priority
    IN [raised |-> "none", maxPriorityFeePerGas |-> priority, maxFeePerGas |-> max_fee]

\* (a variant that prefers the confirmed count)
get_pending_nonce_confirmed_first(pending, latest) ==
    IF latest.ok THEN [raised |-> "none", val |-> latest.val, queries |-> <<"latest">>]
    ELSE IF pending.ok
    THEN [raised |-> "none", val |-> pending.val, queries |-> <<"latest", "pending">>]
    ELSE [raised |-> "Exception", val |-> 0, queries |-> <<"latest", "pending">>]

\* get_pending_nonce: pending and latest are the node's replies to
\* get_transaction_count(address, 'pending') and get_transaction_count(address);
\* queries lists the queries made
get_pending_nonce(pending, latest) ==
    IF pending.ok THEN [raised |-> "none", val |-> pending.val, queries |-> <<"pending">>]
    ELSE IF latest.ok
    THEN [raised |-> "none", val |-> latest.val, queries |-> <<"pending", "latest">>]
    ELSE [raised |-> "Exception", val |-> 0, queries |-> <<"pending", "latest">>]

\* a transaction's gas field: absent, or a limit
NoGas == [present |-> FALSE, val |-> 0]

Gas(limit) == [present |-> TRUE, val |-> limit]

\* (a variant that drops the gas field when the estimate fails)
estimate_and_attach_gas_drops(txn, estimate, buffer_ratio) ==
    IF estimate.ok
    THEN [raised |-> "none",
          tx |-> [txn EXCEPT !.gas = Gas(floor(Times(Q(estimate.val, 1), buffer_ratio)))]]
    ELSE [raised |-> "none", tx |-> [txn EXCEPT !.gas = NoGas]]

\* estimate_and_attach_gas: estimate is the node's reply to estimate_gas(tx);
\* tx["gas"] = int(int(gas) * buffer_ratio), or tx as it was
estimate_and_attach_gas(txn, estimate, buffer_ratio) ==
    IF estimate.ok
    THEN [raised |-> "none",
          tx |-> [txn EXCEPT !.gas = Gas(floor(Times(Q(estimate.val, 1), buffer_ratio)))]]
    ELSE [raised |-> "none", tx |-> txn]

----------------------------------------------------------------------------
BlockReplies ==
    {[ok |-> FALSE, has |-> FALSE, val |-> 0], [ok |-> TRUE, has |-> FALSE, val |-> 0]}
    \cup {[ok |-> TRUE, has |-> TRUE, val |-> f] : f \in {0, 7, 100}}

PriorityReplies == {Failed, Reply(0), Reply(3)}

GasPriceReplies == {Failed, Reply(0), Reply(50)}

PriorityFeesGwei == {0, 1}

Multipliers == {Zero, Q(1, 2), Q(1, 1), Q(3, 2), Q(2, 1)}

CountReplies == {Failed, Reply(4), Reply(5)}

UnsignedTxs == {[nonce |-> 4, maxFeePerGas |-> 50, gas |-> g] : g \in {NoGas, Gas(90000)}}

EstimateReplies == {Failed} \cup {Reply(g) : g \in {0, 1, 5, 21000, 21001}}

DefaultBufferRatio == Q(12, 10)

BufferRatios == {DefaultBufferRatio, Q(1, 1), Q(3, 2)}

UtilGetPendingNonce ==
    /\ eng.pc = "call" /\ eng.op = "get_pending_nonce"
    /\ eng' = Done(get_pending_nonce(eng.args.pending, eng.args.latest))
    /\ UNCHANGED <<loop, tx, run>>

UtilEstimateAndAttachGas ==
    /\ eng.pc = "call" /\ eng.op = "estimate_and_attach_gas"
    /\ eng' = Done(estimate_and_attach_gas(eng.args.tx, eng.args.estimate,
                                           eng.args.buffer_ratio))
    /\ UNCHANGED <<loop, tx, run>>

UtilBuildFees ==
    /\ eng.pc = "call" /\ eng.op = "build_eip1559_fees"
    /\ eng' = Done(build_eip1559_fees(eng.args.block, eng.args.max_priority_fee,
                                      eng.args.gas_price, eng.args.priority_fee_gwei,
                                      eng.args.multiplier))
    /\ UNCHANGED <<loop, tx, run>>

\* the errors an attempt of send_signed_transaction_with_receipt is
\* classified on: each message as a ValueError, as TimeExhausted and as
\* another exception
ClassifyMsgs ==
    { <<"already", "known">>,
      <<"nonce", "too", "low">>,
      <<"replacement", "transaction", "underpriced">>,
      <<"transaction", "underpriced">>,
      <<"insufficient", "funds">>,
      <<"insufficient", "funds", "for", "un", "known", "account">>,
      <<"nonce", "too", "low", "insufficient", "funds">>,
      <<"known", "transaction", "underpriced">>,
      <<"fee", "underpriced", "insufficient", "funds">>,
      <<"execution", "reverted">>,
      <<"not", "in", "chain">> }

ClassifyErrors ==
    {[cls |-> c, msg |-> m] : c \in {"ValueError", "TimeExhausted", "Exception"},
                              m \in ClassifyMsgs}

(* the except clauses of the retry loop take an error *)
UtilClassify ==
    /\ eng.pc = "call" /\ eng.op = "classify"
    /\ eng' = Done([raised |-> "none", how |-> Classify(eng.args.err, eng.args.hasHash)])
    /\ UNCHANGED <<loop, tx, run>>

UtilNext ==
    \/ UtilClassify
    \/ UtilGetPendingNonce
    \/ UtilBuildFees
    \/ UtilEstimateAndAttachGas

UtilInit ==
    /\ loop = [l \in Loops |-> [pc |-> "idle"]]
    /\ tx = TxIdle
    /\ run = RunIdle
    /\ \/ \E block \in BlockReplies, prio \in PriorityReplies, gp \in GasPriceReplies,
             gwei \in PriorityFeesGwei, m \in Multipliers :
             eng = Call("build_eip1559_fees",
                        [block |-> block, max_priority_fee |-> prio, gas_price |-> gp,
                         priority_fee_gwei |-> gwei, multiplier |-> m])
       \/ \E pending \in CountReplies, latest \in CountReplies :
             eng = Call("get_pending_nonce", [pending |-> pending, latest |-> latest])
       \/ \E txn \in UnsignedTxs, estimate \in EstimateReplies, ratio \in BufferRatios :
             eng = Call("estimate_and_attach_gas",
                        [tx |-> txn, estimate |-> estimate, buffer_ratio |-> ratio])
       \/ \E err \in ClassifyErrors, hasHash \in BOOLEAN :
             eng = Call("classify", [err |-> err, hasHash |-> hasHash])

UtilSpec == UtilInit /\ [][UtilNext]_vars

(***************************************************************************)
(*                      CLAIMS ON THE FEED SUPERVISOR                      *)
(***************************************************************************)
\* the step from s to t of one loop is the delivery of a cancellation
IsCancelStep(s, t) == t.cancelled /\ (~s.cancelled \/ t.pc = "done")

\* C1: when streaming ends by a server close, an error frame or an exception
\* (not by cancellation) the loop enters the backoff with nothing to re-raise;
\* the backoff is one sleep of 5 seconds that leads to a new connection
\* attempt; and the subscription sent on a connection is the one sent on the
\* connection before it, {"assets_ids": chunk} for the loop's own chunk.
C1_ReconnectResendsSubscription ==
    [][\A l \in Loops :
          LET s == loop[l]
              t == loop'[l]
          IN /\ (s.pc = "receiving" /\ t.pc # "receiving" /\ ~IsCancelStep(s, t))
                   => (t.pc = "backoff" /\ t.pending = "none" /\ t.raised = "none")
             /\ (s.pc = "backoff" /\ s.pending = "none" /\ t # s /\ ~IsCancelStep(s, t))
                   => (t.pc = "connecting" /\ t.lastDelay = BackoffSeconds
                       /\ t.slept = s.slept + 1 /\ t.conn = s.conn)
             /\ (s.pc = "sending" /\ t.pc = "receiving")
                   => /\ Len(t.subs) = 1
                      /\ s.prevSubs # <<>> => t.subs = s.prevSubs
                      /\ l \in MarketLoops => t.subs[1] = [assets_ids |-> Chunk(l)]]_vars

\* a market loop streams on its third connection, the second having been
\* closed by the server, and has sent the same subscription again
C1_Witness ==
    \E l \in MarketLoops :
       /\ loop[l].pc = "receiving"
       /\ loop[l].conn = 3
       /\ loop[l].lastEnd = "closed by server"
       /\ loop[l].subs = <<[assets_ids |-> Chunk(l)]>>
       /\ loop[l].prevSubs = loop[l].subs

\* C2: a loop to which a cancellation was delivered has left at once, with
\* CancelledError propagated to its caller: it is never found in the backoff
\* sleep after the cancellation.
C2_CancelSkipsBackoff ==
    \A l \in Loops :
       loop[l].cancelled => (loop[l].pc = "done" /\ loop[l].raised = "CancelledError")

\* the last frame was a text frame that failed to parse, or one whose
\* callback raised
BadTextFrame(t) ==
    /\ t.lastFrame # <<>>
    /\ t.lastFrame[1].type = "TEXT"
    /\ \/ ~JsonLoads(t.lastFrame[1].data).ok
       \/ t.lastCb = "raise"

\* C3: the receive of a text frame that fails JSON parsing, or whose callback
\* raises, leaves the loop receiving on the same connection, with no backoff
\* sleep, no new connection attempt and nothing raised.
C3_BadFrameKeepsStreaming ==
    [][\A l \in Loops :
          LET s == loop[l]
              t == loop'[l]
          IN (s.pc = "receiving" /\ t.frames = s.frames - 1 /\ BadTextFrame(t))
                => /\ t.pc = "receiving"
                   /\ t.ws = s.ws
                   /\ t.conn = s.conn
                   /\ t.subs = s.subs
                   /\ t.slept = s.slept
                   /\ t.pending = "none"
                   /\ t.raised = "none"]_vars

\* a loop has received an unparsable frame and then a frame whose callback
\* raised, and is still receiving on its first connection
C3_Witness ==
    \E l \in Loops :
       /\ loop[l].pc = "receiving"
       /\ loop[l].conn = 1
       /\ Len(loop[l].received) = 2
       /\ ~JsonLoads(loop[l].received[1].data).ok
       /\ loop[l].lastCb = "raise"
       /\ loop[l].frames > 0

\* C4: a loop ends, or holds an exception to re-raise, only by cancellation:
\* nothing but CancelledError is ever propagated to the caller, and only to
\* a task that was cancelled.
C4_OnlyCancellationEndsLoop ==
    \A l \in Loops :
       /\ loop[l].raised \in {"none", "CancelledError"}
       /\ loop[l].pending \in {"none", "CancelledError"}
       /\ (loop[l].pc = "done" \/ loop[l].raised # "none" \/ loop[l].pending # "none")
             => loop[l].cancelled
       /\ loop[l].pc = "done" => loop[l].raised = "CancelledError"

\* a loop whose connection ended with an exception no clause names is back
\* at a new connection attempt
C4_Witness ==
    \E l \in Loops :
       /\ loop[l].pc = "connecting"
       /\ loop[l].conn = 2
       /\ loop[l].lastEnd = "handshake failed"
       /\ ~loop[l].cancelled

\* C5: a step changes the state of one loop only: whatever happens to a loop
\* (failure, disconnect, backoff, cancellation), each sibling keeps its
\* position, its connection, its subscription and the events delivered to it.
C5_SiblingsUnaffected ==
    [][\A a, b \in Loops : a # b => (loop'[a] = loop[a] \/ loop'[b] = loop[b])]_vars

\* one loop was cancelled, one backs off after a connection error, and the
\* third streams with its subscription sent and an event list delivered
C5_Witness ==
    \E a, b, c \in Loops :
       /\ loop[a].pc = "done" /\ loop[a].cancelled
       /\ loop[b].pc = "backoff" /\ loop[b].lastEnd = "connection error"
       /\ loop[c].pc = "receiving"
       /\ loop[c].subs = <<SubscriptionMessage(c, 1)>>
       /\ loop[c].forwarded # <<>>

\* what receipt order asks of the callback: one list per text frame that
\* holds an array or an object, in the order of the frames, an array's
\* elements in the order they have in the frame
RECURSIVE InReceiptOrder(_)
InReceiptOrder(frames) ==
    IF frames = <<>> THEN <<>>
    ELSE LET f == frames[1]
             d == f.data
             one == IF f.type # "TEXT" \/ d = <<>> THEN <<>>
                    ELSE IF d[1] = "[" /\ Len(d) >= 2 /\ d[Len(d)] = "]"
                    THEN << [i \in 1..(Len(d) - 2) |-> d[i + 1]] >>
                    ELSE IF Len(d) = 1 /\ d[1] \in Events THEN << d >>
                    ELSE <<>>
         IN one \o InReceiptOrder(Tail(frames))

\* C6: on a connection, the lists handed to the callback are those of the
\* frames received so far, in receipt order, each once: when the loop waits
\* for the next frame every earlier frame has been through the callback.
C6_ForwardedInReceiptOrder ==
    \A l \in Loops :
       loop[l].pc = "receiving" => loop[l].forwarded = InReceiptOrder(loop[l].received)

\* an array frame, a frame that is not forwarded, and an object frame
C6_Witness ==
    \E l \in Loops :
       /\ loop[l].pc = "receiving"
       /\ Len(loop[l].received) = 3
       /\ loop[l].forwarded = << <<"e1", "e2">>, <<"e2">> >>

(***************************************************************************)
(*               CLAIMS ON THE TRANSACTION RELIABILITY LAYER               *)
(***************************************************************************)
\* C7: an attempt whose error indicates insufficient funds is the last thing
\* the call does: the error itself is raised to the caller, with no later
\* send, no sleep after it and no final receipt wait.
C7_InsufficientFundsNeverRetried ==
    \A i \in 1..Len(tx.log) :
       tx.log[i] = "insufficient funds"
          => /\ i = Len(tx.log)
             /\ tx.pc = "raised"
             /\ tx.raisedErr[1].cls # "RuntimeError"
             /\ Contains(tx.raisedErr[1].msg, <<"insufficient", "funds">>)
             /\ tx.sends = i
             /\ Len(tx.sleeps) = i - 1
             /\ tx.finalWaits = 0

\* C8: every send_raw_transaction call has a nonce fetch of its own before
\* it: there are never more sends than nonce fetches.
C8_NonceFetchedPerAttempt == tx.sends <= tx.nonceFetches

\* C9: with max_retries >= 3, a call whose attempts so far all failed with
\* "nonce too low" goes on to the next attempt; and when two such failures
\* are followed by an attempt whose send and wait succeed, the call returns
\* the receipt got in the third attempt, after exactly three sends.
C9_ThirdAttemptReceipt ==
    tx.max_retries >= 3 =>
       /\ (Len(tx.log) \in 1..2 /\ \A i \in 1..Len(tx.log) : tx.log[i] = "nonce too low")
             => /\ tx.pc \in {"sleep", "loop", "wait"}
                /\ tx.sends \in {Len(tx.log), Len(tx.log) + 1}
       /\ tx.log = <<"nonce too low", "nonce too low", "ok">>
             => /\ tx.pc = "returned"
                /\ tx.result = <<[hash |-> "H", attempt |-> 3, via |-> "wait"]>>
                /\ tx.sends = 3
                /\ tx.raisedErr = <<>>

\* two "nonce too low" failures, then a send and a wait that succeed
C9_Witness ==
    /\ tx.log = <<"nonce too low", "nonce too low", "ok">>
    /\ tx.pc = "returned"
    /\ tx.sleeps = <<tx.poll_interval, 2 * tx.poll_interval>>

\* C10: send_raw_transaction is called at most max_retries times; a receipt
\* wait after the loop happens at most once, only when the attempts are
\* exhausted and a transaction hash is held, with the bounded timeout
\* poll_interval * max_retries; its receipt is returned if it arrives, and
\* otherwise, or with no hash, the call raises the terminal RuntimeError.
C10_BoundedSendsOneFinalWait ==
    /\ tx.pc # "idle" =>
          /\ tx.sends <= tx.max_retries
          /\ tx.finalWaits <= 1
          /\ tx.pc = "final_wait"
                => (tx.tx_hash = "H" /\ tx.attempt = tx.max_retries /\ tx.finalWaits = 0)
          /\ tx.finalWaits = 1
                => /\ tx.tx_hash = "H"
                   /\ tx.sends = tx.max_retries
                   /\ tx.waitTimeout = tx.poll_interval * tx.max_retries
                   /\ tx.pc \in {"returned", "raised"}
                   /\ tx.pc = "returned"
                         => tx.result = <<[hash |-> "H", attempt |-> tx.max_retries,
                                           via |-> "final_wait"]>>
                   /\ tx.pc = "raised" => tx.raisedErr[1].cls = "RuntimeError"
          /\ (tx.pc = "raised" /\ tx.raisedErr[1].cls = "RuntimeError")
                => /\ tx.attempt = tx.max_retries
                   /\ tx.finalWaits = (IF tx.tx_hash = "H" THEN 1 ELSE 0)
          /\ (tx.pc = "returned" /\ tx.finalWaits = 0) => tx.result[1].via # "final_wait"

\* three attempts are used up, a hash is held, and the wait after the loop
\* brings the receipt
C10_Witness ==
    /\ tx.pc = "returned"
    /\ tx.max_retries = 3
    /\ tx.sends = 3
    /\ tx.finalWaits = 1
    /\ tx.result[1].via = "final_wait"

C12_TerminalFailureCarriesLastError ==
    (tx.pc = "raised" /\ tx.raisedErr[1].cls = "RuntimeError" /\ tx.max_retries >= 1)
       => /\ tx.raisedErr[1].cause # <<>>
          /\ tx.raisedErr[1].cause[1].at = tx.max_retries

\* C13: the k-th sleep of a call lasts exactly poll_interval * k, and every
\* sleep is followed by a resubmission: a call that has ended, or has left
\* its retry loop, has made more sends than sleeps (or no sleep at all).
C13_DelayOnlyBeforeResubmission ==
    tx.pc # "idle" =>
       /\ \A k \in 1..Len(tx.sleeps) : tx.sleeps[k] = tx.poll_interval * k
       /\ tx.pc \in {"final_wait", "returned", "raised"}
             => (Len(tx.sleeps) = 0 \/ Len(tx.sleeps) < tx.sends)

(***************************************************************************)
(*                   CLAIMS ON THE REWARD-SCORING ENGINE                   *)
(***************************************************************************)
\* the call of op that eng holds has been made
Made(op) == eng.pc = "done" /\ eng.op = op

\* C14: utility_score(v_cents, s_cents, b) returns 0 for every
\* s_cents > v_cents; for v_cents > 0 it returns exactly b at s_cents = 0,
\* ((v_cents - s_cents) / v_cents)^2 * b for 0 <= s_cents <= v_cents, and so
\* 0 at s_cents = v_cents.
C14_UtilityScoreValues ==
    Made("utility_score") =>
       LET v == eng.args.v_cents
           s == eng.args.s_cents
           b == eng.args.b_multiplier
           ratio == Over(Minus(v, s), v)
       IN /\ Less(v, s) => eng.out = Returns(Zero)
          /\ (Less(Zero, v) /\ s = Zero) => eng.out = Returns(b)
          /\ (Less(Zero, v) /\ LessEq(Zero, s) /\ LessEq(s, v))
                => eng.out = Returns(Times(Times(ratio, ratio), b))
          /\ (Less(Zero, v) /\ s = v) => eng.out = Returns(Zero)

\* a spread of 1 cent inside a qualifying spread of 2, weight 3/2: the
\* score is (1/2)^2 * 3/2 = 3/8
C14_Witness ==
    /\ Made("utility_score")
    /\ eng.args = [v_cents |-> Q(2, 1), s_cents |-> Q(1, 1), b_multiplier |-> Q(3, 2)]
    /\ eng.out = Returns(Q(3, 8))

\* C15 as stated: for every negative s_cents and v_cents > 0, utility_score
\* returns 0.
C15_NegativeSpreadScoresZero ==
    (Made("utility_score") /\ Less(eng.args.s_cents, Zero) /\ Less(Zero, eng.args.v_cents))
       => eng.out = Returns(Zero)

\* C15, amended: for every negative s_cents and v_cents > 0, utility_score
\* returns b, the score of a spread of 0: a negative spread is clamped to 0.
C15_NegativeSpreadScoresAsZeroSpread ==
    (Made("utility_score") /\ Less(eng.args.s_cents, Zero) /\ Less(Zero, eng.args.v_cents))
       => eng.out = Returns(eng.args.b_multiplier)

\* a spread of -1 cent, qualifying spread 2, weight 3/2: the score is 3/2
C15_Witness ==
    /\ Made("utility_score")
    /\ eng.args = [v_cents |-> Q(2, 1), s_cents |-> Q(-1, 1), b_multiplier |-> Q(3, 2)]
    /\ eng.out = Returns(Q(3, 2))

\* the rule C16 states: inside the band 0.10 <= mid <= 0.90 the larger of
\* min(q_one, q_two) and max(q_one / c_scale, q_two / c_scale), outside it
\* min(q_one, q_two)
QminRule(q_one, q_two, mid, c_scale) ==
    LET lo == IF Less(q_two, q_one) THEN q_two ELSE q_one
        hi == IF Less(q_two, q_one) THEN q_one ELSE q_two
        single == Over(hi, c_scale)
    IN IF LessEq(Q(1, 10), mid) /\ LessEq(mid, Q(9, 10))
       THEN (IF Less(lo, single) THEN single ELSE lo)
       ELSE lo

\* compute_qmin and compute_qmin_tokens return what the rule gives
C16_QminFunctionsFollowRule ==
    (Made("compute_qmin") \/ Made("compute_qmin_tokens")) =>
       /\ eng.out = QminRule(eng.args.q_one, eng.args.q_two, eng.args.mid, eng.args.c_scale)
       /\ (eng.args.q_one = Q(10, 1) /\ eng.args.q_two = Q(2, 1) /\ eng.args.c_scale = Q(3, 1))
             => /\ eng.args.mid = Q(1, 2) => eng.out = Q(10, 3)
                /\ eng.args.mid = Q(5, 100) => eng.out = Q(2, 1)

\* C16: compute_qmin and compute_qmin_tokens return what the rule gives
\* (10/3 at mid = 0.5 and 2 at mid = 0.05 for q_one = 10, q_two = 2,
\* c_scale = 3), and wherever a qmin is computed it is the rule's value for
\* the c_scale the caller holds.
C16_QminUsesCallerCScale ==
    /\ C16_QminFunctionsFollowRule
    /\ (Made("summarize_current_book") /\ eng.out.raised = "none")
          => eng.out.qmin = QminRule(eng.out.q_bids, eng.out.q_asks, eng.args.mid,
                                     eng.args.c_scale)

\* C17: compute_qmin is symmetric in its two scores: for every mid and every
\* c_scale > 0, what compute_qmin(a, b, mid, c_scale) returned is what
\* compute_qmin(b, a, mid, c_scale) returns.
C17_QminSymmetric ==
    (Made("compute_qmin") /\ Less(Zero, eng.args.c_scale))
       => eng.out = compute_qmin(eng.args.q_two, eng.args.q_one, eng.args.mid,
                                 eng.args.c_scale)

\* inside the band, with unequal scores 10 and 2 and c_scale = 3: the
\* discounted single side 10/3 is returned, whichever argument holds the 10
C17_Witness ==
    /\ Made("compute_qmin")
    /\ eng.args = [q_one |-> Q(2, 1), q_two |-> Q(10, 1), mid |-> Q(1, 2), c_scale |-> Q(3, 1)]
    /\ eng.out = Q(10, 3)
    /\ compute_qmin(Q(10, 1), Q(2, 1), Q(1, 2), Q(3, 1)) = Q(10, 3)

\* C18: every rung that propose_orders returns lies at mid - i * tick_size
\* (bids) or mid + i * tick_size (asks) for an integer i >= 1 with
\* i * tick_size <= v_cents / 100; every bid price is inside (0, 1) and every
\* ask price inside (0, 1]; and for mid = 0.5, tick_size = 0.01, v_cents = 3
\* the bid prices are among 0.47, 0.48, 0.49 and the ask prices among 0.51,
\* 0.52, 0.53.  (Stated for the calls with v_cents > 0, tick_size > 0 and
\* mid in [0, 1].)
C18_RungsWithinQualifyingSpread ==
    ( /\ Made("propose_orders") /\ eng.out.raised = "none"
      /\ Less(Zero, eng.args.v_cents) /\ Less(Zero, eng.args.tick_size)
      /\ LessEq(Zero, eng.args.mid) /\ LessEq(eng.args.mid, One) ) =>
       LET mid == eng.args.mid
           tick == eng.args.tick_size
           v_dollars == Over(eng.args.v_cents, Q(100, 1))
           Within(i) == LessEq(Times(Q(i, 1), tick), v_dollars)
           example == mid = Q(1, 2) /\ tick = Q(1, 100) /\ eng.args.v_cents = Q(3, 1)
       IN /\ \A k \in 1..Len(eng.out.bids) :
                LET p == eng.out.bids[k][1]
                IN /\ \E i \in 1..(MaxCents + 1) :
                         p = Minus(mid, Times(Q(i, 1), tick)) /\ Within(i)
                   /\ Less(Zero, p) /\ Less(p, One)
                   /\ example => p \in {Q(47, 100), Q(48, 100), Q(49, 100)}
          /\ \A k \in 1..Len(eng.out.asks) :
                LET p == eng.out.asks[k][1]
                IN /\ \E i \in 1..(MaxCents + 1) :
                         p = Plus(mid, Times(Q(i, 1), tick)) /\ Within(i)
                   /\ Less(Zero, p) /\ LessEq(p, One)
                   /\ example => p \in {Q(51, 100), Q(52, 100), Q(53, 100)}

\* the rungs the call returned on a side, and that side's candidate prices
Rungs(of) == IF of = "bids" THEN eng.out.bids ELSE eng.out.asks

Candidates(of) ==
    LET n == n_steps(eng.args.v_cents, eng.args.tick_size)
    IN IF of = "bids" THEN bid_prices(eng.args.mid, eng.args.tick_size, n)
       ELSE ask_prices(eng.args.mid, eng.args.tick_size, n)

\* the sum of price * size over rungs
RECURSIVE Notional(_)
Notional(rungs) ==
    IF rungs = <<>> THEN Zero
    ELSE Plus(Notional(Tail(rungs)), Times(Head(rungs)[1], Head(rungs)[2]))

\* some candidate of the side reaches min_size when budget is split evenly
EvenSplitReaches(of, budget) ==
    \E i \in 1..Len(Candidates(of)) :
       LessEq(eng.args.min_size,
              Over(Over(budget, Q(Len(Candidates(of)), 1)), Candidates(of)[i]))

\* C19: with side "both" each side's budget is usdc / 2; with "bid" or "ask"
\* the named side's budget is usdc and the other side returns no rung.  The
\* rungs kept under the even split have size (budget / number of
\* candidates) / price; the sum of price * size over a side never exceeds
\* the side's budget, and equals it when no candidate is dropped.
C19_BudgetSplitEvenly ==
    (Made("propose_orders") /\ eng.out.raised = "none") =>
       \A of \in {"bids", "asks"} :
          LET named == IF of = "bids" THEN "bid" ELSE "ask"
              budget == IF eng.args.side = "both" THEN Over(eng.args.usdc, Q(2, 1))
                        ELSE IF eng.args.side = named THEN eng.args.usdc
                        ELSE Zero
              each == Over(budget, Q(Len(Candidates(of)), 1))
          IN /\ eng.args.side \notin {"both", named} => Rungs(of) = <<>>
             /\ LessEq(Notional(Rungs(of)), budget)
             /\ (Candidates(of) # <<>> /\ Len(Rungs(of)) = Len(Candidates(of)))
                   => Notional(Rungs(of)) = budget
             /\ (Candidates(of) # <<>> /\ EvenSplitReaches(of, budget))
                   => \A k \in 1..Len(Rungs(of)) :
                         Rungs(of)[k][2] = Over(each, Rungs(of)[k][1])

\* 100 on both sides of mid 0.5, three candidates a side, min_size 32: the
\* three bids are kept and add up to 50, the ask at 0.53 is dropped and the
\* two asks left add up to 100/3
C19_Witness ==
    /\ Made("propose_orders")
    /\ eng.args = [mid |-> Q(1, 2), tick_size |-> Q(1, 100), v_cents |-> Q(3, 1),
                   min_size |-> Q(32, 1), usdc |-> Q(100, 1), side |-> "both"]
    /\ Len(eng.out.bids) = 3 /\ Notional(eng.out.bids) = Q(50, 1)
    /\ Len(eng.out.asks) = 2 /\ Notional(eng.out.asks) = Q(100, 3)

\* C20: every returned rung has size >= min_size; and on a side with
\* candidates and a budget where no candidate reaches min_size under the even
\* split, the side returns exactly one rung, at the candidate nearest to mid
\* with size = budget / price, if that size is >= min_size, and no rung
\* otherwise.
C20_MinSizeAndFallback ==
    (Made("propose_orders") /\ eng.out.raised = "none") =>
       \A of \in {"bids", "asks"} :
          LET budget == side_budget(eng.args.usdc, eng.args.side, of)
              cands == Candidates(of)
              Dist(p) == abs(Minus(p, eng.args.mid))
          IN /\ \A k \in 1..Len(Rungs(of)) : LessEq(eng.args.min_size, Rungs(of)[k][2])
             /\ (cands # <<>> /\ Less(Zero, budget) /\ ~EvenSplitReaches(of, budget))
                   => \E i \in 1..Len(cands) :
                         /\ \A j \in 1..Len(cands) : LessEq(Dist(cands[i]), Dist(cands[j]))
                         /\ Rungs(of) =
                               IF LessEq(eng.args.min_size, Over(budget, cands[i]))
                               THEN << <<cands[i], Over(budget, cands[i])>> >>
                               ELSE <<>>

\* 100 on both sides of mid 0.5, three candidates a side, min_size 60: no
\* even share of 50/3 reaches 60, and each side returns its nearest rung
\* with the whole 50
C20_Witness ==
    /\ Made("propose_orders")
    /\ eng.args = [mid |-> Q(1, 2), tick_size |-> Q(1, 100), v_cents |-> Q(3, 1),
                   min_size |-> Q(60, 1), usdc |-> Q(100, 1), side |-> "both"]
    /\ eng.out.bids = << <<Q(49, 100), Q(5000, 49)>> >>
    /\ eng.out.asks = << <<Q(51, 100), Q(5000, 51)>> >>

\* the arguments of the call break one of the engine's input conditions:
\* v_cents <= 0, tick_size <= 0, or mid outside [0, 1]
InvalidInput ==
    \/ LessEq(eng.args.v_cents, Zero)
    \/ eng.op = "propose_orders" /\ LessEq(eng.args.tick_size, Zero)
    \/ eng.op \in {"score_side", "propose_orders"}
          /\ (Less(eng.args.mid, Zero) \/ Less(One, eng.args.mid))

\* C21: a call of utility_score, score_side or propose_orders with
\* v_cents <= 0, tick_size <= 0 or mid outside [0, 1] ends in an error: it
\* never returns a score or a ladder.
C21_InvalidInputsRejected ==
    ( /\ eng.pc = "done"
      /\ eng.op \in {"utility_score", "score_side", "propose_orders"}
      /\ InvalidInput )
       => eng.out.raised # "none"

\* the token ids of the market of the call: those of the first of the two
\* fields that holds any
MarketTokenIds ==
    IF eng.args.market.clobTokenIds.ids # <<>> THEN eng.args.market.clobTokenIds.ids
    ELSE eng.args.market.clob_token_ids.ids

\* C22: get_market_and_tokens returns a token pair only for a market with
\* exactly two token ids; for a market whose id list is absent or holds
\* fewer or more than two ids it fails with an input error.
C22_ExactlyTwoTokenIds ==
    (Made("get_market_and_tokens") /\ eng.args.found) =>
       IF Len(MarketTokenIds) = 2
       THEN eng.out = [raised |-> "none", token_ids |-> MarketTokenIds]
       ELSE eng.out.raised = "ValueError"

(***************************************************************************)
(*                  CLAIMS ON THE TRANSACTION UTILITIES                    *)
(***************************************************************************)
\* C23: build_eip1559_fees never fails; its priority fee is the node's
\* suggestion when that can be read and priority_fee_gwei in wei otherwise;
\* its maxFeePerGas is multiplier * base_fee (in whole wei) + priority fee
\* when the pending block gives a base fee, gas_price + priority fee when
\* the block query fails or has no base fee, and the priority fee alone
\* when the gas-price query fails as well.
C23_FeeFallbacks ==
    Made("build_eip1559_fees") =>
       LET a == eng.args
           priority == IF a.max_priority_fee.ok THEN a.max_priority_fee.val
                       ELSE a.priority_fee_gwei * 1000000000
           scaled == (a.multiplier[1] * a.block.val) \div a.multiplier[2]
       IN /\ eng.out.raised = "none"
          /\ eng.out.maxPriorityFeePerGas = priority
          /\ (a.block.ok /\ a.block.has) => eng.out.maxFeePerGas = scaled + priority
          /\ (~(a.block.ok /\ a.block.has) /\ a.gas_price.ok)
                => eng.out.maxFeePerGas = a.gas_price.val + priority
          /\ (~(a.block.ok /\ a.block.has) /\ ~a.gas_price.ok)
                => eng.out.maxFeePerGas = priority

\* the pending block has no base fee and the node suggests no priority fee:
\* gas price 50 plus the caller's 1 gwei
C23_Witness ==
    /\ Made("build_eip1559_fees")
    /\ eng.args.block = [ok |-> TRUE, has |-> FALSE, val |-> 0]
    /\ ~eng.args.max_priority_fee.ok
    /\ eng.args.gas_price = Reply(50)
    /\ eng.args.priority_fee_gwei = 1
    /\ eng.out = [raised |-> "none", maxPriorityFeePerGas |-> 1000000000,
                  maxFeePerGas |-> 1000000050]

\* C24: get_pending_nonce returns the pending-inclusive count whenever that
\* query succeeds, without asking for the confirmed count; when the pending
\* query fails it asks for the confirmed count and returns it; and when
\* that query fails too the failure reaches the caller.
C24_PendingThenConfirmed ==
    Made("get_pending_nonce") =>
       /\ eng.args.pending.ok
             => eng.out = [raised |-> "none", val |-> eng.args.pending.val,
                           queries |-> <<"pending">>]
       /\ (~eng.args.pending.ok /\ eng.args.latest.ok)
             => eng.out = [raised |-> "none", val |-> eng.args.latest.val,
                           queries |-> <<"pending", "latest">>]
       /\ (~eng.args.pending.ok /\ ~eng.args.latest.ok)
             => (eng.out.raised # "none" /\ eng.out.queries = <<"pending", "latest">>)

\* the pending count is 5 and the confirmed count 4: 5 is returned and the
\* confirmed count is not asked for
C24_Witness ==
    /\ Made("get_pending_nonce")
    /\ eng.args = [pending |-> Reply(5), latest |-> Reply(4)]
    /\ eng.out = [raised |-> "none", val |-> 5, queries |-> <<"pending">>]

\* C25: when the estimate succeeds with g, the gas limit attached is
\* ceil(g * buffer_ratio), so it is never below g * buffer_ratio.
C25_GasLimitIsCeiling ==
    (Made("estimate_and_attach_gas") /\ eng.args.estimate.ok) =>
       LET g == eng.args.estimate.val
           n == g * eng.args.buffer_ratio[1]
           d == eng.args.buffer_ratio[2]
       IN /\ eng.out.raised = "none"
          /\ eng.out.tx.gas.present
          /\ eng.out.tx.gas.val = (n + d - 1) \div d
          /\ eng.out.tx.gas.val * d >= n

\* C26: when the estimate fails, estimate_and_attach_gas raises nothing and
\* returns the transaction with every field as it was: a gas field that was
\* present keeps its value, an absent one stays absent.
C26_FailedEstimateLeavesTx ==
    (Made("estimate_and_attach_gas") /\ ~eng.args.estimate.ok) =>
       /\ eng.out.raised = "none"
       /\ eng.out.tx = eng.args.tx

\* the estimate fails for a transaction that carries a gas limit of 90000
C26_Witness ==
    /\ Made("estimate_and_attach_gas")
    /\ ~eng.args.estimate.ok
    /\ eng.args.tx.gas = Gas(90000)
    /\ eng.out.tx.gas = Gas(90000)

(***************************************************************************)
(*                 FURTHER CLAIMS ON THE FEED SUPERVISOR                   *)
(***************************************************************************)
\* C27: on a connection a loop sends at most one control message, its own
\* subscription or auth payload; it is in its receive loop, has received a
\* frame or has forwarded events only on a connection on which exactly that
\* one message has been sent; and while the message is still to be sent
\* nothing has been received or forwarded.
C27_OneControlMessageFirst ==
    \A l \in Loops :
       loop[l].pc # "idle" =>
          /\ Len(loop[l].subs) <= 1
          /\ loop[l].pc = "sending"
                => (loop[l].subs = <<>> /\ loop[l].received = <<>> /\ loop[l].forwarded = <<>>)
          /\ (loop[l].pc = "receiving" \/ loop[l].received # <<>> \/ loop[l].forwarded # <<>>)
                => loop[l].subs = <<SubscriptionMessage(l, loop[l].conn)>>

\* on its second connection a loop has sent its one control message and has
\* forwarded the events of a frame
C27_Witness ==
    \E l \in Loops :
       /\ loop[l].conn = 2
       /\ loop[l].pc = "receiving"
       /\ Len(loop[l].subs) = 1
       /\ loop[l].forwarded # <<>>

\* C28: every connection attempt of a loop but its first comes after exactly
\* one completed backoff sleep since the attempt before it, and that sleep
\* lasted the fixed 5 seconds, however the attempt before it ended and
\* however many attempts have failed.
C28_OneFixedBackoffBetweenAttempts ==
    [][ \A l \in Loops :
           (loop[l].pc = "connecting" /\ loop'[l].conn = loop[l].conn + 1 /\ loop[l].conn >= 1)
              => (loop[l].slept = 1 /\ loop[l].lastDelay = BackoffSeconds)
      ]_vars

\* a third connection attempt has been made: after a failed connect and
\* after a connection that ended, one 5 s sleep each
C28_Witness ==
    \E l \in Loops :
       /\ loop[l].conn = 3
       /\ loop[l].slept = 0
       /\ loop[l].lastDelay = BackoffSeconds

\* C29: a loop holds at most one open socket at any time, and a connection's
\* socket is closed when its streaming phase ends: while the loop is in its
\* backoff or about to connect again, no socket it opened is still open,
\* whether the connection ended by a server close, an error frame or an
\* exception after a successful connect.
C29_SocketClosedBeforeNext ==
    \A l \in Loops :
       loop[l].pc # "idle" =>
          /\ loop[l].unclosed <= 1
          /\ loop[l].pc \in {"backoff", "connecting"} => loop[l].unclosed = 0

(***************************************************************************)
(*            FURTHER CLAIMS ON THE TRANSACTION RELIABILITY LAYER          *)
(***************************************************************************)
\* the order of the steps of one approval
ApprovalSteps == <<"nonce", "params", "build", "gas", "sign">>

\* C30: the steps taken on an approval are, in this order, the nonce fetch,
\* the fee parameters, the building of the call, the gas estimate and the
\* signing; the transaction is signed only when its nonce and fees are
\* attached and the gas estimate has run on it; it is submitted only once
\* signed; and a receipt is waited for only after a submission.
C30_BuildEstimateSignSubmitWait ==
    tx.pc # "idle" =>
       /\ Len(tx.steps) <= Len(ApprovalSteps)
       /\ tx.steps = SubSeq(ApprovalSteps, 1, Len(tx.steps))
       /\ tx.signed
             => /\ {"nonce", "fees"} \subseteq tx.attached
                /\ tx.steps = ApprovalSteps
       /\ "gas" \in tx.attached => Len(tx.steps) >= 4
       /\ (tx.sends > 0 \/ tx.pc \in {"entry", "loop", "sleep"}) => tx.signed
       /\ tx.pc \in {"wait", "known_wait", "final_wait", "returned"}
             => (tx.sends > 0 /\ tx.tx_hash = "H")

\* an approval went through all the steps, carries the estimated gas, was
\* submitted once and its receipt came
C30_Witness ==
    /\ tx.pc = "returned"
    /\ tx.steps = ApprovalSteps
    /\ tx.attached = {"nonce", "fees", "gas"}
    /\ tx.signed
    /\ tx.sends = 1
    /\ tx.log = <<"ok">>

\* the call of send_signed_transaction_with_receipt has been made and is over
CallOver == tx.pc \in {"returned", "raised"} /\ tx.signed

\* the three outcomes: a receipt is returned; the insufficient-funds error
\* of an attempt is raised; the RuntimeError is raised with the attempts
\* used up
ReceiptReturned == tx.pc = "returned" /\ Len(tx.result) = 1 /\ tx.raisedErr = <<>>

InsufficientFundsRaised ==
    /\ tx.pc = "raised"
    /\ tx.result = <<>>
    /\ tx.raisedErr[1].cls = "ValueError"
    /\ tx.raisedErr[1].at >= 1
    /\ Contains(tx.raisedErr[1].msg, <<"insufficient", "funds">>)

TerminalFailureRaised ==
    /\ tx.pc = "raised"
    /\ tx.result = <<>>
    /\ tx.raisedErr[1].cls = "RuntimeError"
    /\ tx.attempt = tx.max_retries

\* the signed transaction has no raw bytes: ValueError before any attempt
MissingRawRaised ==
    /\ tx.pc = "raised"
    /\ tx.result = <<>>
    /\ tx.raisedErr[1].cls = "ValueError"
    /\ tx.raisedErr[1].at = 0
    /\ tx.sends = 0

\* C31 as stated: every call ends, and ends in one of the three outcomes.
C31_TerminatesInThreeOutcomes ==
    /\ (tx.pc = "entry") ~> CallOver
    /\ [](CallOver => (ReceiptReturned \/ InsufficientFundsRaised \/ TerminalFailureRaised))

\* C31: every call ends, whatever the RPC node answers; a call whose signed
\* transaction carries raw bytes ends in exactly one of the three outcomes,
\* and a call whose signed transaction carries none ends in the ValueError
\* raised before the first attempt.
C31_TerminatesInOneOutcome ==
    /\ (tx.pc = "entry") ~> CallOver
    /\ [](CallOver =>
            IF tx.hasRaw
            THEN /\ ReceiptReturned \/ InsufficientFundsRaised \/ TerminalFailureRaised
                 /\ ~(ReceiptReturned /\ InsufficientFundsRaised)
                 /\ ~(ReceiptReturned /\ TerminalFailureRaised)
                 /\ ~(InsufficientFundsRaised /\ TerminalFailureRaised)
            ELSE MissingRawRaised /\ ~InsufficientFundsRaised /\ ~TerminalFailureRaised)

\* a call used up three attempts on errors, held no hash and raised the
\* terminal failure
C31_Witness ==
    /\ TerminalFailureRaised
    /\ tx.signed
    /\ tx.max_retries = 3
    /\ tx.sends = 3
    /\ Len(tx.sleeps) = 3
    /\ tx.tx_hash = "none"

\* every number given to build_eip1559_fees is non-negative
NonNegativeFeeInputs ==
    /\ eng.args.block.val >= 0
    /\ eng.args.max_priority_fee.val >= 0
    /\ eng.args.gas_price.val >= 0
    /\ eng.args.priority_fee_gwei >= 0
    /\ LessEq(Zero, eng.args.multiplier)

\* C32: for non-negative base fee, gas price, priority fee and multiplier,
\* the maxFeePerGas that build_eip1559_fees returns is never below the
\* maxPriorityFeePerGas it returns, whichever branch computed it.
C32_MaxFeeCoversPriority ==
    (Made("build_eip1559_fees") /\ NonNegativeFeeInputs)
       => /\ eng.out.maxPriorityFeePerGas >= 0
          /\ eng.out.maxFeePerGas >= eng.out.maxPriorityFeePerGas

\* a base fee of 7 halved to 3 whole wei, under a priority fee of 1 gwei
C32_Witness ==
    /\ Made("build_eip1559_fees")
    /\ eng.args.block = [ok |-> TRUE, has |-> TRUE, val |-> 7]
    /\ eng.args.multiplier = Q(1, 2)
    /\ ~eng.args.max_priority_fee.ok
    /\ eng.args.priority_fee_gwei = 1
    /\ eng.out.maxPriorityFeePerGas = 1000000000
    /\ eng.out.maxFeePerGas = 1000000003

(***************************************************************************)
(*                       CLAIMS ON approveContracts                        *)
(***************************************************************************)
\* C33: an approve is issued only on an allowance read that failed or gave
\* less than MAX_INT, and always on such a read; a setApprovalForAll only on
\* an isApprovedForAll read that failed or gave false, and always on such a
\* read; a transaction exists only inside an approval that was issued; and a
\* run whose reads all showed the approval in place has issued nothing.
C33_ApprovesOnlyWhereNeeded ==
    /\ [](run.pc # "idle" =>
            /\ run.pc = "usdc_tx" => (~run.read.ok \/ run.read.val < MAX_INT)
            /\ run.pc = "ctf_tx" => (~run.read.ok \/ run.read.val = FALSE)
            /\ tx.pc # "idle" => run.pc \in {"usdc_tx", "ctf_tx", "aborted"}
            /\ run.allApproved => (run.started = 0 /\ tx.pc = "idle"))
    /\ [][ /\ run.pc = "allowance"
              => /\ run'.pc \in {"usdc_tx", "approved"}
                 /\ run'.pc = "approved"
                       <=> (run'.read.ok /\ run'.read.val = MAX_INT)
                 /\ run'.started = run.started + (IF run'.pc = "usdc_tx" THEN 1 ELSE 0)
           /\ run.pc = "approved"
              => /\ run'.pc \in {"ctf_tx", "allowance", "done"}
                 /\ run'.pc = "ctf_tx"
                       <=> (~run'.read.ok \/ run'.read.val = FALSE)
                 /\ run'.started = run.started + (IF run'.pc = "ctf_tx" THEN 1 ELSE 0)
         ]_vars

\* a run in which every read but the last showed the approval in place and
\* the last one failed: one transaction, for the last operator approval
C33_Witness ==
    /\ run.pc = "done"
    /\ run.i = NumSpenders
    /\ run.read = [ok |-> FALSE, val |-> FALSE]
    /\ run.started = 1
    /\ run.receipts = 1

\* C34: an approval is entered, and its nonce fetched, only when every
\* approval entered before it has returned a receipt; while a transaction
\* has been sent and is not yet done it is the only approval without a
\* receipt; and once a submission has raised, the run does nothing more.
C34_OneTransactionInFlight ==
    /\ [](run.pc # "idle" =>
            /\ run.started \in {run.receipts, run.receipts + 1}
            /\ tx.pc \notin {"idle", "returned"} => run.started = run.receipts + 1
            /\ tx.pc = "idle" => run.started = run.receipts)
    /\ [][ /\ run'.started # run.started
              => /\ run'.started = run.started + 1
                 /\ run.receipts = run.started
                 /\ tx.pc = "idle"
                 /\ tx'.pc = "nonce" /\ tx'.nonceFetches = 0 /\ tx'.sends = 0
           /\ (tx.pc = "nonce" /\ tx'.pc # "nonce")
              => (tx'.nonceFetches = 1 /\ run.receipts = run.started - 1 /\ run' = run)
           /\ run'.receipts # run.receipts
              => (run'.receipts = run.receipts + 1 /\ tx.pc = "returned")
           /\ tx.pc = "raised"
              => (run'.pc = "aborted" /\ run'.started = run.started /\ tx' = tx)
           /\ run.pc = "aborted" => vars' = vars
         ]_vars

\* the first approval returned its receipt, then the second one was built
\* and submitted and ended in an error: the run stops at the first address
C34_Witness ==
    /\ run.pc = "aborted"
    /\ run.i = 1
    /\ run.started = 2
    /\ run.receipts = 1
    /\ tx.pc = "raised"
    /\ tx.sends >= 1

(***************************************************************************)
(*                   FURTHER CLAIMS ON THE RECEIVE LOOP                    *)
(***************************************************************************)
\* a text frame that holds a JSON scalar, or a frame that is neither a text
\* frame nor a close or error frame
NotAnEventFrame(f) ==
    \/ f.type = "TEXT" /\ Len(f.data) = 1 /\ f.data[1] \in Scalars
    \/ f.type \notin ({"TEXT", "ERROR"} \cup CloseTypes)

\* the data of a text frame is a JSON array of events
ArrayData(d) ==
    Len(d) >= 2 /\ d[1] = "[" /\ d[Len(d)] = "]" /\ \A i \in 2..(Len(d) - 1) : d[i] \in Events

\* C35: in both loops, the receive of a text frame holding a JSON scalar, or
\* of a frame that is not a text, close or error frame, hands nothing to the
\* callback and leaves the loop receiving on the same connection; whenever a
\* receive hands something to the callback, the frame was a text frame
\* holding an array, handed on as it is, or an object, handed on as a
\* one-element list.
C35_OnlyObjectsAndArraysForwarded ==
    [][\A l \in Loops :
          LET s == loop[l]
              t == loop'[l]
          IN (s.pc = "receiving" /\ t.frames = s.frames - 1)
                => LET f == t.lastFrame[1] IN
                   /\ NotAnEventFrame(f)
                         => /\ t.pc = "receiving"
                            /\ t.forwarded = s.forwarded
                            /\ t.lastCb = "none"
                            /\ t.ws = s.ws
                            /\ t.conn = s.conn
                            /\ t.slept = s.slept
                            /\ t.pending = "none"
                            /\ t.raised = "none"
                   /\ t.forwarded # s.forwarded
                         => /\ f.type = "TEXT"
                            /\ \/ /\ ArrayData(f.data)
                                  /\ t.forwarded
                                        = Append(s.forwarded, SubSeq(f.data, 2, Len(f.data) - 1))
                               \/ /\ Len(f.data) = 1 /\ f.data[1] \in Events
                                  /\ t.forwarded = Append(s.forwarded, <<f.data[1]>>)]_vars

\* a loop has received a JSON number and a binary frame, has handed nothing
\* to the callback and is still receiving on its first connection
C35_Witness ==
    \E l \in Loops :
       /\ loop[l].pc = "receiving"
       /\ loop[l].conn = 1
       /\ loop[l].received = <<[type |-> "TEXT", data |-> <<"7">>],
                               [type |-> "BINARY", data |-> <<>>]>>
       /\ loop[l].forwarded = <<>>
       /\ loop[l].frames > 0

(***************************************************************************)
(*                 CLAIMS ON THE CLASSIFICATION OF ERRORS                  *)
(***************************************************************************)
\* what the first matching rule gives: the already-known handling (the wait
\* is resumed when a hash is held, and the error is passed over otherwise),
\* then the retry rule, then the fatal rule, then retry; the rules of the
\* message apply to a ValueError only
FirstMatchingRule(isValueError, known, retryable, funds, hasHash) ==
    IF ~isValueError THEN "retry"
    ELSE IF known THEN (IF hasHash THEN "resume" ELSE "ignore")
    ELSE IF retryable THEN "retry"
    ELSE IF funds THEN "fatal"
    ELSE "retry"

\* C36 as stated: the retry rule is for a message that contains "nonce too
\* low" or "underpriced".
C36_FirstMatchUnderpriced ==
    Made("classify") =>
       LET e == eng.args.err
       IN eng.out.how
             = FirstMatchingRule(e.cls = "ValueError",
                                 Contains(e.msg, <<"known">>),
                                 \/ Contains(e.msg, <<"nonce", "too", "low">>)
                                 \/ Contains(e.msg, <<"underpriced">>),
                                 Contains(e.msg, <<"insufficient", "funds">>),
                                 eng.args.hasHash)

\* C36: an error is classified by the first matching rule in the order:
\* message contains "known" > message contains "nonce too low",
\* "replacement transaction underpriced" or "transaction underpriced" >
\* message contains "insufficient funds" > anything else; the rules apply to
\* a ValueError only, so the error is fatal exactly when it is a ValueError
\* whose message contains "insufficient funds" and matches no earlier rule.
C36_FirstMatchingRuleWins ==
    Made("classify") =>
       LET e == eng.args.err
           known == Contains(e.msg, <<"known">>)
           retryable == \/ Contains(e.msg, <<"nonce", "too", "low">>)
                        \/ Contains(e.msg, <<"replacement", "transaction", "underpriced">>)
                        \/ Contains(e.msg, <<"transaction", "underpriced">>)
           funds == Contains(e.msg, <<"insufficient", "funds">>)
       IN /\ eng.out.how
                = FirstMatchingRule(e.cls = "ValueError", known, retryable, funds,
                                    eng.args.hasHash)
          /\ eng.out.how = "fatal"
                <=> (e.cls = "ValueError" /\ funds /\ ~known /\ ~retryable)

\* an insufficient-funds ValueError whose message also contains "known" is
\* passed over, not raised
C36_Witness ==
    /\ Made("classify")
    /\ eng.args.err = [cls |-> "ValueError",
                       msg |-> <<"insufficient", "funds", "for", "un", "known", "account">>]
    /\ ~eng.args.hasHash
    /\ eng.out.how = "ignore"
====
